---- MODULE Spec2Model ----
(***************************************************************************)
(* xvault: the popup's password gate (App.tsx handlers) and the enhanced   *)
(* security utilities (utils/enhancedSecurity.ts) over the IndexedDB key-  *)
(* value store and localStorage.                                           *)
(*                                                                         *)
(* Every handler is one atomic step: the popup is single-threaded and the  *)
(* claims checked under Spec are about whole operations.  Date.now() is    *)
(* the variable now (milliseconds) and does not move inside a handler.     *)
(* Digests and PBKDF2 are collision-free symbolic terms.                   *)
(***************************************************************************)
EXTENDS Integers, Sequences, FiniteSets, TLC

\* ---------------------------------------------------------------- bounds
MaxTicks == 2        \* clock advances in one behaviour
MaxTamper == 1       \* out-of-band rewrites of the store in one behaviour
MaxBoot == 4         \* cap on the stored bootCount
MaxNesting == 2      \* cap on how often the stored folders are encrypted over
MaxTextLen == 2      \* code units in a text handed to encryptData
MaxAttempts == 12     \* cap on the stored count when lockouts are waited out
MaxFailures == 6     \* cap on the failed logins two popups make between them
StartTime == 2000000 \* Date.now() at the first launch

Passwords == {"correcthorse1", "hunter2hunter2", "short"}
Salts == {"salt-a", "salt-b"}
Challenges == {"chal-a"}
Nonces == {"nonce-a"}
\* 1 ms, one ms short of the lockout, the session lifetime
Deltas == {1, 899999, 86400000}
\* 1 ms, one ms short of the idle half hour, the idle half hour
IdleDeltas == {1, 1799999, 1800000}

\* ------------------------------------------------------ program constants
LOCKOUT_MS == 15 * 60 * 1000
LOCKOUT_WAIT_S == 15 * 60
\* variant: the idle time that restarts the count is one millisecond shorter
IDLE_RESET_MS_OneLess == 30 * 60 * 1000 - 1
IDLE_RESET_MS == 30 * 60 * 1000
expirationTime == 24 * 60 * 60 * 1000
MAX_FAILED == 5
\* variant: the history keeps one timestamp more
HISTORY_MAX_OneMore == 10 + 1
HISTORY_MAX == 10
\* variant: the length threshold is three too low
MIN_PASSWORD_LENGTH_TooLow == 8 - 3
MIN_PASSWORD_LENGTH == 8

\* JavaScript null / undefined for record-valued slots
Null == [null |-> TRUE]

\* ------------------------------------------------------------ key names
PASSWORD_INFO == "local:passwordInfo"
INTEGRITY == "local:integrity"
INTEGRITY_BACKUP == "local:security_verification"
SECURITY_METADATA == "local:security_metadata"
FAILED_ATTEMPTS == "local:failedAttempts"
FAILED_ATTEMPTS_BACKUP == "local:security_rate_limiting"
SESSION_AUTH == "session:authenticated"
SESSION_CHALLENGE == "session:challenge"
BOOT_VERIFICATION == "local:boot_verification"

FOLDERS == "local:folders"
ENCRYPTION_ENABLED == "local:encryptionEnabled"

\* --------------------------------------------------- key-value store API
\* A store is a function whose domain is the set of keys that hold a value.
getItem(db, key) == IF key \in DOMAIN db THEN db[key] ELSE Null

setItem(db, key, value) ==
  [k \in (DOMAIN db) \cup {key} |-> IF k = key THEN value ELSE db[k]]

removeItem(db, key) == [k \in (DOMAIN db) \ {key} |-> db[k]]

EmptyStore == [k \in {} |-> Null]

\* ------------------------------------------------------ crypto utilities
bufferToHex(buffer) == <<"hex", buffer>>

hexToBuffer(hex) == hex[2]

digest(alg, data) == <<alg, data>>

hashPassword(password, salt) ==
  bufferToHex(<<"PBKDF2-SHA256-100000", password, salt>>)

\* variant: the comparison accepts any password
verifyPassword_AnyPassword(password, storedHash, salt) ==
  hashPassword(password, salt) = hashPassword(password, salt)

verifyPassword(password, storedHash, salt) ==
  hashPassword(password, salt) = storedHash

JSONstringify(passwordInfo) == <<"json", passwordInfo.hash, passwordInfo.salt>>

\* The record handleSetPassword builds from a password and a fresh salt.
NewPasswordInfo(password, salt) ==
  [hash |-> hashPassword(password, salt), salt |-> bufferToHex(salt)]

\* ------------------------------------------- enhancedSecurity.ts helpers
\* S is the pair of stores: S.db (IndexedDB) and S.ls (localStorage).
\* uuid is what crypto.randomUUID() returns if it is called.
generateDeviceId(S, uuid) ==
  IF "device_id" \in DOMAIN S.ls
    THEN [S |-> S, ret |-> S.ls["device_id"]]
    ELSE [S |-> [S EXCEPT !.ls = setItem(S.ls, "device_id", uuid)], ret |-> uuid]

createIntegrityHashes(S, passwordInfo, uuid) ==
  LET data == JSONstringify(passwordInfo)
      g == generateDeviceId(S, uuid)
  IN [S |-> g.S,
      primaryHash |-> bufferToHex(digest("SHA-256", data)),
      secondaryHash |-> bufferToHex(digest("SHA-512", <<data, g.ret>>))]

\* variant: the time is left out of the data the checksum is taken of
createSecurityChecksum_NoTimestamp(S, t, uuid) ==
  LET g == generateDeviceId(S, uuid)
      combinedData == <<"json", getItem(S.db, PASSWORD_INFO),
                        getItem(S.db, INTEGRITY),
                        getItem(S.db, FAILED_ATTEMPTS), g.ret>>
  IN [S |-> g.S, ret |-> bufferToHex(digest("SHA-256", combinedData))]

createSecurityChecksum(S, t, uuid) ==
  LET g == generateDeviceId(S, uuid)
      combinedData == <<"json", getItem(S.db, PASSWORD_INFO),
                        getItem(S.db, INTEGRITY),
                        getItem(S.db, FAILED_ATTEMPTS), g.ret, t>>
  IN [S |-> g.S, ret |-> bufferToHex(digest("SHA-256", combinedData))]

updateSecurityMetadata(S, t, uuid) ==
  LET existingMetadata == getItem(S.db, SECURITY_METADATA)
      c == createSecurityChecksum(S, t, uuid)
      metadata == [checksum |-> c.ret,
                   lastVerified |-> t,
                   securityVersion |-> 1,
                   bootCount |-> (IF existingMetadata = Null THEN 0
                                  ELSE existingMetadata.bootCount) + 1]
  IN [db |-> setItem(c.S.db, SECURITY_METADATA, metadata),
      ls |-> setItem(c.S.ls, "security_metadata_backup",
                     [checksum |-> c.ret, lastVerified |-> t])]

\* variant: the backup copy is not written
storeEnhancedIntegrityData_NoBackup(S, passwordInfo, t, uuid) ==
  LET h == createIntegrityHashes(S, passwordInfo, uuid)
      g == generateDeviceId(h.S, uuid)
      integrityData == [primaryHash |-> h.primaryHash,
                        secondaryHash |-> h.secondaryHash,
                        timestamp |-> t,
                        deviceId |-> g.ret,
                        version |-> 1]
      S1 == [g.S EXCEPT !.db = setItem(g.S.db, INTEGRITY, integrityData)]
  IN updateSecurityMetadata(S1, t, uuid)

storeEnhancedIntegrityData(S, passwordInfo, t, uuid) ==
  LET h == createIntegrityHashes(S, passwordInfo, uuid)
      g == generateDeviceId(h.S, uuid)
      integrityData == [primaryHash |-> h.primaryHash,
                        secondaryHash |-> h.secondaryHash,
                        timestamp |-> t,
                        deviceId |-> g.ret,
                        version |-> 1]
      backupData == [integrityData EXCEPT !.timestamp = t + 1]
      S1 == [g.S EXCEPT !.db = setItem(g.S.db, INTEGRITY, integrityData)]
      S2 == [S1 EXCEPT !.db = setItem(S1.db, INTEGRITY_BACKUP, backupData)]
  IN updateSecurityMetadata(S2, t, uuid)

\* variant: a copy that is missing or stale makes the verification fail
verifyEnhancedIntegrity_BothCopies(S, passwordInfo, uuid) ==
  LET primaryIntegrityData == getItem(S.db, INTEGRITY)
      backupIntegrityData == getItem(S.db, INTEGRITY_BACKUP)
  IN IF primaryIntegrityData = Null /\ backupIntegrityData = Null
       THEN [S |-> S, ret |-> FALSE]
       ELSE
         LET h == createIntegrityHashes(S, passwordInfo, uuid)
             primaryCheck ==
               IF primaryIntegrityData # Null
                 THEN /\ h.primaryHash = primaryIntegrityData.primaryHash
                      /\ h.secondaryHash = primaryIntegrityData.secondaryHash
                 ELSE FALSE
             backupCheck ==
               IF backupIntegrityData # Null
                 THEN /\ h.primaryHash = backupIntegrityData.primaryHash
                      /\ h.secondaryHash = backupIntegrityData.secondaryHash
                 ELSE FALSE
         IN [S |-> h.S, ret |-> primaryCheck /\ backupCheck]

\* variant: the two restore statements write under each other's key
verifyEnhancedIntegrity_RestoreSwapped(S, passwordInfo, uuid) ==
  LET primaryIntegrityData == getItem(S.db, INTEGRITY)
      backupIntegrityData == getItem(S.db, INTEGRITY_BACKUP)
  IN IF primaryIntegrityData = Null /\ backupIntegrityData = Null
       THEN [S |-> S, ret |-> FALSE]
       ELSE
         LET h == createIntegrityHashes(S, passwordInfo, uuid)
             primaryCheck ==
               IF primaryIntegrityData # Null
                 THEN /\ h.primaryHash = primaryIntegrityData.primaryHash
                      /\ h.secondaryHash = primaryIntegrityData.secondaryHash
                 ELSE FALSE
             backupCheck ==
               IF backupIntegrityData # Null
                 THEN /\ h.primaryHash = backupIntegrityData.primaryHash
                      /\ h.secondaryHash = backupIntegrityData.secondaryHash
                 ELSE FALSE
             isValid == primaryCheck \/ backupCheck
             S1 == IF primaryIntegrityData = Null /\ backupCheck
                     THEN [h.S EXCEPT !.db = removeItem(h.S.db, INTEGRITY_BACKUP)]
                     ELSE h.S
             S2 == IF backupIntegrityData = Null /\ primaryCheck
                     THEN [S1 EXCEPT !.db = removeItem(S1.db, INTEGRITY)]
                     ELSE S1
         IN [S |-> S2, ret |-> isValid]

verifyEnhancedIntegrity(S, passwordInfo, uuid) ==
  LET primaryIntegrityData == getItem(S.db, INTEGRITY)
      backupIntegrityData == getItem(S.db, INTEGRITY_BACKUP)
  IN IF primaryIntegrityData = Null /\ backupIntegrityData = Null
       THEN [S |-> S, ret |-> FALSE]
       ELSE
         LET h == createIntegrityHashes(S, passwordInfo, uuid)
             primaryCheck ==
               IF primaryIntegrityData # Null
                 THEN /\ h.primaryHash = primaryIntegrityData.primaryHash
                      /\ h.secondaryHash = primaryIntegrityData.secondaryHash
                 ELSE FALSE
             backupCheck ==
               IF backupIntegrityData # Null
                 THEN /\ h.primaryHash = backupIntegrityData.primaryHash
                      /\ h.secondaryHash = backupIntegrityData.secondaryHash
                 ELSE FALSE
             isValid == primaryCheck \/ backupCheck
             S1 == IF primaryIntegrityData = Null /\ backupCheck
                     THEN [h.S EXCEPT !.db = setItem(h.S.db, INTEGRITY, backupIntegrityData)]
                     ELSE h.S
             S2 == IF backupIntegrityData = Null /\ primaryCheck
                     THEN [S1 EXCEPT !.db = setItem(S1.db, INTEGRITY_BACKUP, primaryIntegrityData)]
                     ELSE S1
         IN [S |-> S2, ret |-> isValid]

\* variant: the response leaves the password hash out
challengeResponse_WithoutHash(passwordInfo, challengeBytes, nonceBytes) ==
  bufferToHex(digest("SHA-256", <<hexToBuffer(passwordInfo.salt), challengeBytes,
                                  nonceBytes>>))

\* response = SHA-256(salt || challenge || hash || nonce), hex-encoded
challengeResponse(passwordInfo, challengeBytes, nonceBytes) ==
  bufferToHex(digest("SHA-256", <<hexToBuffer(passwordInfo.salt), challengeBytes,
                                  hexToBuffer(passwordInfo.hash), nonceBytes>>))

createEnhancedAuthChallenge(S, passwordInfo, t, challengeBytes, nonceBytes) ==
  LET authChallenge == [challenge |-> bufferToHex(challengeBytes),
                        response |-> challengeResponse(passwordInfo, challengeBytes, nonceBytes),
                        timestamp |-> t,
                        nonce |-> bufferToHex(nonceBytes)]
  IN [S EXCEPT !.db = setItem(S.db, SESSION_CHALLENGE, authChallenge)]

\* variant: the challenge is already expired at exactly 24 h
verifyEnhancedAuthChallenge_ExpiresAt24h(S, passwordInfo, t) ==
  LET authChallenge == getItem(S.db, SESSION_CHALLENGE)
  IN IF authChallenge = Null
       THEN [S |-> S, ret |-> FALSE]
       ELSE IF t - authChallenge.timestamp >= expirationTime
         THEN [S |-> [S EXCEPT !.db = removeItem(S.db, SESSION_CHALLENGE)], ret |-> FALSE]
         ELSE [S |-> S,
               ret |-> challengeResponse(passwordInfo,
                                         hexToBuffer(authChallenge.challenge),
                                         hexToBuffer(authChallenge.nonce))
                       = authChallenge.response]

verifyEnhancedAuthChallenge(S, passwordInfo, t) ==
  LET authChallenge == getItem(S.db, SESSION_CHALLENGE)
  IN IF authChallenge = Null
       THEN [S |-> S, ret |-> FALSE]
       ELSE IF t - authChallenge.timestamp > expirationTime
         THEN [S |-> [S EXCEPT !.db = removeItem(S.db, SESSION_CHALLENGE)], ret |-> FALSE]
         ELSE [S |-> S,
               ret |-> challengeResponse(passwordInfo,
                                         hexToBuffer(authChallenge.challenge),
                                         hexToBuffer(authChallenge.nonce))
                       = authChallenge.response]

\* Math.ceil(ms / 1000) for ms > 0
ceilSeconds(ms) == (ms + 999) \div 1000

\* lockedUntil is optional in the source; 0 stands for "not set" (falsy).
FreshAttempts == [count |-> 0, lastAttempt |-> 0, lockedUntil |-> 0, attemptHistory |-> <<>>]

\* variant: the backup copy is not consulted
loadAttempts_PrimaryOnly(S) ==
  IF getItem(S.db, FAILED_ATTEMPTS) # Null THEN getItem(S.db, FAILED_ATTEMPTS)
  ELSE FreshAttempts

\* primary copy, else backup copy, else a fresh record
loadAttempts(S) ==
  IF getItem(S.db, FAILED_ATTEMPTS) # Null THEN getItem(S.db, FAILED_ATTEMPTS)
  ELSE IF getItem(S.db, FAILED_ATTEMPTS_BACKUP) # Null THEN getItem(S.db, FAILED_ATTEMPTS_BACKUP)
  ELSE FreshAttempts

storeAttempts(S, attempts) ==
  [S EXCEPT !.db = setItem(setItem(S.db, FAILED_ATTEMPTS, attempts),
                           FAILED_ATTEMPTS_BACKUP, attempts)]

\* variant: a running lockout is reported as not locked
trackEnhancedFailedLogin_LockIgnored(S, t) ==
  LET attempts == loadAttempts(S)
  IN IF attempts.lockedUntil # 0 /\ t < attempts.lockedUntil
       THEN [S |-> S, isLocked |-> FALSE, waitTime |-> 0]
       ELSE
         LET idle == t - attempts.lastAttempt > IDLE_RESET_MS
             count == (IF idle THEN 0 ELSE attempts.count) + 1
             pushed == Append(IF idle THEN <<>> ELSE attempts.attemptHistory, t)
             history == IF Len(pushed) > HISTORY_MAX THEN Tail(pushed) ELSE pushed
             counted == [count |-> count, lastAttempt |-> t,
                         lockedUntil |-> attempts.lockedUntil,
                         attemptHistory |-> history]
         IN IF count >= MAX_FAILED
              THEN
                LET locked == [counted EXCEPT !.lockedUntil = t + LOCKOUT_MS]
                    S1 == storeAttempts(S, locked)
                IN [S |-> [S1 EXCEPT !.ls = setItem(S1.ls, "security_lockout",
                                                    [lockedUntil |-> locked.lockedUntil])],
                    isLocked |-> TRUE, waitTime |-> LOCKOUT_WAIT_S]
              ELSE [S |-> storeAttempts(S, counted), isLocked |-> FALSE, waitTime |-> 0]

\* variant: an attempt made during a lockout is counted as well
trackEnhancedFailedLogin_CountsWhileLocked(S, t) ==
  LET attempts == loadAttempts(S)
  IN IF attempts.lockedUntil # 0 /\ t < attempts.lockedUntil
       THEN [S |-> storeAttempts(S, [attempts EXCEPT !.count = @ + 1, !.lastAttempt = t]),
             isLocked |-> TRUE,
             waitTime |-> ceilSeconds(attempts.lockedUntil - t)]
       ELSE
         LET idle == t - attempts.lastAttempt > IDLE_RESET_MS
             count == (IF idle THEN 0 ELSE attempts.count) + 1
             pushed == Append(IF idle THEN <<>> ELSE attempts.attemptHistory, t)
             history == IF Len(pushed) > HISTORY_MAX THEN Tail(pushed) ELSE pushed
             counted == [count |-> count, lastAttempt |-> t,
                         lockedUntil |-> attempts.lockedUntil,
                         attemptHistory |-> history]
         IN IF count >= MAX_FAILED
              THEN
                LET locked == [counted EXCEPT !.lockedUntil = t + LOCKOUT_MS]
                    S1 == storeAttempts(S, locked)
                IN [S |-> [S1 EXCEPT !.ls = setItem(S1.ls, "security_lockout",
                                                    [lockedUntil |-> locked.lockedUntil])],
                    isLocked |-> TRUE, waitTime |-> LOCKOUT_WAIT_S]
              ELSE [S |-> storeAttempts(S, counted), isLocked |-> FALSE, waitTime |-> 0]

trackEnhancedFailedLogin(S, t) ==
  LET attempts == loadAttempts(S)
  IN IF attempts.lockedUntil # 0 /\ t < attempts.lockedUntil
       THEN [S |-> S, isLocked |-> TRUE,
             waitTime |-> ceilSeconds(attempts.lockedUntil - t)]
       ELSE
         LET idle == t - attempts.lastAttempt > IDLE_RESET_MS
             count == (IF idle THEN 0 ELSE attempts.count) + 1
             pushed == Append(IF idle THEN <<>> ELSE attempts.attemptHistory, t)
             history == IF Len(pushed) > HISTORY_MAX THEN Tail(pushed) ELSE pushed
             counted == [count |-> count, lastAttempt |-> t,
                         lockedUntil |-> attempts.lockedUntil,
                         attemptHistory |-> history]
         IN IF count >= MAX_FAILED
              THEN
                LET locked == [counted EXCEPT !.lockedUntil = t + LOCKOUT_MS]
                    S1 == storeAttempts(S, locked)
                IN [S |-> [S1 EXCEPT !.ls = setItem(S1.ls, "security_lockout",
                                                    [lockedUntil |-> locked.lockedUntil])],
                    isLocked |-> TRUE, waitTime |-> LOCKOUT_WAIT_S]
              ELSE [S |-> storeAttempts(S, counted), isLocked |-> FALSE, waitTime |-> 0]

\* variant: the backup copy of the record is left in place
resetEnhancedFailedLoginAttempts_PrimaryOnly(S) ==
  [db |-> removeItem(S.db, FAILED_ATTEMPTS),
   ls |-> removeItem(S.ls, "security_lockout")]

resetEnhancedFailedLoginAttempts(S) ==
  [db |-> removeItem(removeItem(S.db, FAILED_ATTEMPTS), FAILED_ATTEMPTS_BACKUP),
   ls |-> removeItem(S.ls, "security_lockout")]

\* variant: missing metadata is always taken for a first boot
performSecurityBootCheck_AlwaysFirstBoot(S, t, uuid) ==
  LET metadata == getItem(S.db, SECURITY_METADATA)
  IN IF metadata = Null
       THEN [S |-> updateSecurityMetadata(S, t, uuid), ret |-> TRUE]
       ELSE
         LET c == createSecurityChecksum(S, t, uuid)
             isChecksumValid == c.ret = metadata.checksum
             updatedMetadata == [metadata EXCEPT !.bootCount = metadata.bootCount + 1,
                                                 !.lastVerified = t]
             written == IF isChecksumValid THEN updatedMetadata
                        ELSE [updatedMetadata EXCEPT !.checksum = c.ret]
         IN [S |-> [c.S EXCEPT !.db = setItem(c.S.db, SECURITY_METADATA, written)],
             ret |-> isChecksumValid]

performSecurityBootCheck(S, t, uuid) ==
  LET metadata == getItem(S.db, SECURITY_METADATA)
  IN IF metadata = Null
       THEN [S |-> updateSecurityMetadata(S, t, uuid),
             ret |-> getItem(S.db, PASSWORD_INFO) = Null]
       ELSE
         LET c == createSecurityChecksum(S, t, uuid)
             isChecksumValid == c.ret = metadata.checksum
             updatedMetadata == [metadata EXCEPT !.bootCount = metadata.bootCount + 1,
                                                 !.lastVerified = t]
             written == IF isChecksumValid THEN updatedMetadata
                        ELSE [updatedMetadata EXCEPT !.checksum = c.ret]
         IN [S |-> [c.S EXCEPT !.db = setItem(c.S.db, SECURITY_METADATA, written)],
             ret |-> isChecksumValid]

\* storage.getItem<boolean>('session:authenticated') is truthy
sessionAuthSet(db) == SESSION_AUTH \in DOMAIN db /\ db[SESSION_AUTH] = TRUE

\* variant: the session flag and the integrity check suffice
verifyAuthenticationState_NoChallenge(S, passwordInfo, t, uuid) ==
  IF ~sessionAuthSet(S.db)
    THEN [S |-> S, ret |-> FALSE, calls |-> <<>>]
    ELSE
      LET i == verifyEnhancedIntegrity(S, passwordInfo, uuid)
      IN [S |-> i.S, ret |-> i.ret, calls |-> <<"verifyEnhancedIntegrity">>]

verifyAuthenticationState(S, passwordInfo, t, uuid) ==
  IF ~sessionAuthSet(S.db)
    THEN [S |-> S, ret |-> FALSE, calls |-> <<>>]
    ELSE
      LET i == verifyEnhancedIntegrity(S, passwordInfo, uuid)
      IN IF ~i.ret
           THEN [S |-> i.S, ret |-> FALSE, calls |-> <<"verifyEnhancedIntegrity">>]
           ELSE
             LET c == verifyEnhancedAuthChallenge(i.S, passwordInfo, t)
             IN [S |-> c.S, ret |-> c.ret,
                 calls |-> <<"verifyEnhancedIntegrity", "verifyEnhancedAuthChallenge">>]

\* variant: locking leaves the session records in place
lockApplication_KeepsSession(S) == S

lockApplication(S) ==
  [S EXCEPT !.db = removeItem(removeItem(S.db, SESSION_AUTH), SESSION_CHALLENGE)]

\* ------------------------------------------------- text and byte buffers
\* A JavaScript string is a sequence of units. A unit [cu |-> c] is one UTF-16
\* code unit: "a" a letter, "FEFF" the byte order mark, "FFFD" the replacement
\* character, "D800" and "D801" surrogates with no partner. Any other unit
\* stands for a run of well-formed characters (a JSON text, hex digits).
UnpairedSurrogates == {"D800", "D801"}

\* new TextEncoder().encode(str): the UTF-8 bytes, written as the scalar values
\* they encode; an unpaired surrogate is encoded as U+FFFD
TextEncoder_encode(str) ==
  [utf8 |-> [i \in DOMAIN str |->
               IF str[i].cu \in UnpairedSurrogates THEN [cu |-> "FFFD"] ELSE str[i]]]

\* new TextDecoder().decode(buffer): a leading byte order mark is dropped
bufferToString(buffer) ==
  IF Len(buffer.utf8) > 0 /\ buffer.utf8[1].cu = "FEFF"
    THEN Tail(buffer.utf8)
    ELSE buffer.utf8

\* btoa over the bytes, and atob back
arrayBufferToBase64(buffer) == [base64 |-> buffer]

base64ToArrayBuffer(base64) == base64.base64

\* JSON.stringify of a value, and JSON.parse, which throws on any other text
JSON_stringify(value) == <<[cu |-> "json", value |-> value]>>

JSON_parse(text) ==
  IF Len(text) = 1 /\ text[1].cu = "json"
    THEN [ok |-> TRUE, value |-> text[1].value]
    ELSE [ok |-> FALSE, value |-> Null]

\* crypto.subtle.deriveKey with PBKDF2 over the password bytes and the salt
deriveKey(passwordBuffer, salt) == [pbkdf2 |-> passwordBuffer, salt |-> salt]

\* encryptData: salt || iv || AES-GCM ciphertext, base64 encoded
encryptData(data, password, salt, iv) ==
  arrayBufferToBase64(
    <<salt, iv, [aesgcm |-> TextEncoder_encode(data),
                 key |-> deriveKey(TextEncoder_encode(password), salt),
                 iv |-> iv]>>)

\* crypto.subtle.decrypt: AES-GCM authenticates, a wrong key or iv throws
subtle_decrypt(key, iv, data) ==
  IF data.key = key /\ data.iv = iv
    THEN [ok |-> TRUE, value |-> bufferToString(data.aesgcm)]
    ELSE [ok |-> FALSE, value |-> Null]

\* decryptData: [ok |-> FALSE] stands for the thrown 'Failed to decrypt data'
decryptData(encryptedData, password) ==
  subtle_decrypt(deriveKey(TextEncoder_encode(password),
                           base64ToArrayBuffer(encryptedData)[1]),
                 base64ToArrayBuffer(encryptedData)[2],
                 base64ToArrayBuffer(encryptedData)[3])

\* ----------------------------------------------- securityUtils.ts, folders
\* A folder array is written [array |-> folders]; the other value met under
\* FOLDERS is the base64 text that encryptData returns.
Folders(list) == [array |-> list]

IsArray(data) == "array" \in DOMAIN data

IsString(data) == "base64" \in DOMAIN data

isEncryptionEnabled(S) ==
  ENCRYPTION_ENABLED \in DOMAIN S.db /\ S.db[ENCRYPTION_ENABLED] = TRUE

setEncryptionEnabled(S, enabled) ==
  [S EXCEPT !.db = setItem(S.db, ENCRYPTION_ENABLED, enabled)]

\* the first 32 characters of the stored hash, or null without a credential
getCurrentPassword(S) ==
  IF getItem(S.db, PASSWORD_INFO) = Null
    THEN Null
    ELSE <<[cu |-> "hex32", of |-> getItem(S.db, PASSWORD_INFO).hash]>>

\* !password: getCurrentPassword returned null
noCurrentPassword(S) == getItem(S.db, PASSWORD_INFO) = Null

\* variant: the folders are encrypted under the whole stored hash instead of the
\* key that getCurrentPassword derives
encryptFolders_WholeHash(S, folders, salt, iv) ==
  IF noCurrentPassword(S)
    THEN [ok |-> FALSE, value |-> Null]
    ELSE [ok |-> TRUE,
          value |-> encryptData(JSON_stringify(folders),
                                <<[cu |-> "hex64", of |-> getItem(S.db, PASSWORD_INFO).hash]>>,
                                salt, iv)]

\* encryptFolders: [ok |-> FALSE] stands for 'Failed to encrypt folder data'
encryptFolders(S, folders, salt, iv) ==
  IF noCurrentPassword(S)
    THEN [ok |-> FALSE, value |-> Null]
    ELSE [ok |-> TRUE,
          value |-> encryptData(JSON_stringify(folders), getCurrentPassword(S), salt, iv)]

\* the JSON text is parsed if the decryption gave one
parseDecrypted(d) == IF d.ok THEN JSON_parse(d.value) ELSE d

\* decryptFolders: [ok |-> FALSE] stands for 'Failed to decrypt folder data'
decryptFolders(S, encryptedData) ==
  IF noCurrentPassword(S)
    THEN [ok |-> FALSE, value |-> Null]
    ELSE parseDecrypted(decryptData(encryptedData, getCurrentPassword(S)))

\* storeFoldersSecurely: encrypted if encryption is enabled and a password is set
storeFoldersSecurely(S, folders, salt, iv) ==
  IF isEncryptionEnabled(S) /\ getItem(S.db, PASSWORD_INFO) # Null
    THEN [S EXCEPT !.db = setItem(S.db, FOLDERS, encryptFolders(S, folders, salt, iv).value)]
    ELSE [S EXCEPT !.db = setItem(S.db, FOLDERS, folders)]

\* variant: a failed encryption is thrown on to the caller and nothing is stored
storeFoldersSecurelyOutcome_FailClosed(S, folders, encrypted) ==
  IF isEncryptionEnabled(S) /\ getItem(S.db, PASSWORD_INFO) # Null
    THEN IF encrypted.ok
           THEN [S |-> [S EXCEPT !.db = setItem(S.db, FOLDERS, encrypted.value)],
                 threw |-> FALSE]
           ELSE [S |-> S, threw |-> TRUE]
    ELSE [S |-> [S EXCEPT !.db = setItem(S.db, FOLDERS, folders)], threw |-> FALSE]

\* storeFoldersSecurely with the outcome of encryptFolders given: a thrown
\* 'Failed to encrypt folder data' ends in the catch block, which stores the
\* folders as they are and returns
storeFoldersSecurelyOutcome(S, folders, encrypted) ==
  IF isEncryptionEnabled(S) /\ getItem(S.db, PASSWORD_INFO) # Null
    THEN IF encrypted.ok
           THEN [S |-> [S EXCEPT !.db = setItem(S.db, FOLDERS, encrypted.value)],
                 threw |-> FALSE]
           ELSE [S |-> [S EXCEPT !.db = setItem(S.db, FOLDERS, folders)], threw |-> FALSE]
    ELSE [S |-> [S EXCEPT !.db = setItem(S.db, FOLDERS, folders)], threw |-> FALSE]

\* what the catch block of retrieveFoldersSecurely returns
rawFolders(data) == IF IsArray(data) THEN data ELSE Folders(<<>>)

orRawFolders(d, data) == IF d.ok THEN d.value ELSE rawFolders(data)

\* retrieveFoldersSecurely on the record data read from FOLDERS
retrieveFolders(S, encryptionEnabled, data) ==
  IF data = Null THEN Folders(<<>>)
  ELSE IF ~encryptionEnabled /\ IsArray(data) THEN data
  ELSE IF IsString(data) THEN orRawFolders(decryptFolders(S, data), data)
  ELSE IF IsArray(data) THEN data
  ELSE Folders(<<>>)

retrieveFoldersSecurely(S) ==
  retrieveFolders(S, isEncryptionEnabled(S), getItem(S.db, FOLDERS))

\* storage.getItem(FOLDERS) || [] : the stored value itself, array or string
foldersOrEmpty(data) == IF data = Null THEN Folders(<<>>) ELSE data

migrateToEncryptedStorage(S, salt, iv) ==
  IF isEncryptionEnabled(S) THEN [S |-> S, ret |-> TRUE]
  ELSE IF getItem(S.db, PASSWORD_INFO) = Null THEN [S |-> S, ret |-> FALSE]
  ELSE [S |-> setEncryptionEnabled(
                [S EXCEPT !.db = setItem(S.db, FOLDERS,
                    encryptFolders(S, foldersOrEmpty(getItem(S.db, FOLDERS)), salt, iv).value)],
                TRUE),
        ret |-> TRUE]

migrateToUnencryptedStorage(S) ==
  IF ~isEncryptionEnabled(S) THEN [S |-> S, ret |-> TRUE]
  ELSE [S |-> setEncryptionEnabled(
                [S EXCEPT !.db = setItem(S.db, FOLDERS, retrieveFoldersSecurely(S))],
                FALSE),
        ret |-> TRUE]

\* ------------------------------------------------------------------ state
VARIABLES
  storage,          \* the IndexedDB store behind storageCompat
  localStorage,     \* window.localStorage
  now,              \* Date.now()
  passwordInfo,     \* React state: the credential the popup loaded
  isAuthenticated,  \* React state
  isLoading,        \* React state: TRUE until loadData has run
  authError,        \* React state: the message shown to the user
  op,               \* the last handler run and its arguments; the position of a handler in flight
  calls,            \* the security calls that handler made, in order
  ticks,            \* clock advances so far
  tampers,          \* out-of-band rewrites so far
  uuidsIssued       \* calls of crypto.randomUUID() so far

vars == <<storage, localStorage, now, passwordInfo, isAuthenticated, isLoading,
          authError, op, calls, ticks, tampers, uuidsIssued>>

St == [db |-> storage, ls |-> localStorage]

NoError == [msg |-> "", waitTime |-> 0]
Err(msg) == [msg |-> msg, waitTime |-> 0]
TooManyAttempts(waitTime) == [msg |-> "Too many failed attempts.", waitTime |-> waitTime]

Op(name, password) == [name |-> name, password |-> password]

\* crypto.randomUUID(): a value never returned before
randomUUID == <<"uuid", uuidsIssued>>

\* generateDeviceId called randomUUID in this step iff it stored a device id
UuidIssued ==
  uuidsIssued' = IF "device_id" \notin DOMAIN localStorage /\ "device_id" \in DOMAIN localStorage'
                   THEN uuidsIssued + 1 ELSE uuidsIssued

bootCountOf(db) ==
  IF SECURITY_METADATA \in DOMAIN db THEN db[SECURITY_METADATA].bootCount ELSE 0

Init ==
  /\ storage = EmptyStore
  /\ localStorage = EmptyStore
  /\ now = StartTime
  /\ passwordInfo = Null
  /\ isAuthenticated = FALSE
  /\ isLoading = TRUE
  /\ authError = NoError
  /\ op = Op("init", "")
  /\ calls = <<>>
  /\ ticks = 0
  /\ tampers = 0
  /\ uuidsIssued = 0

\* What loadData computes from the stores S at time t.
loadDataResult(S, t, uuid) ==
  LET b == performSecurityBootCheck(S, t, uuid)
      storedPasswordInfo == getItem(b.S.db, PASSWORD_INFO)
      sessionAuth == sessionAuthSet(b.S.db)
  IN IF storedPasswordInfo # Null
       THEN
         IF sessionAuth
           THEN
             LET v == verifyAuthenticationState(b.S, storedPasswordInfo, t, uuid)
             IN [S |-> IF v.ret THEN v.S
                       ELSE [v.S EXCEPT !.db = removeItem(removeItem(v.S.db, SESSION_AUTH),
                                                          SESSION_CHALLENGE)],
                 passwordInfo |-> storedPasswordInfo,
                 isAuthenticated |-> v.ret,
                 calls |-> <<"performSecurityBootCheck", "verifyAuthenticationState">>
                           \o v.calls]
           ELSE [S |-> b.S, passwordInfo |-> storedPasswordInfo, isAuthenticated |-> FALSE,
                 calls |-> <<"performSecurityBootCheck">>]
       ELSE [S |-> b.S, passwordInfo |-> Null, isAuthenticated |-> TRUE,
             calls |-> <<"performSecurityBootCheck">>]

\* The popup is opened: AppContent mounts and loadData runs.
loadData ==
  /\ bootCountOf(storage) < MaxBoot
  /\ LET l == loadDataResult(St, now, randomUUID)
     IN /\ storage' = l.S.db
        /\ localStorage' = l.S.ls
        /\ passwordInfo' = l.passwordInfo
        /\ isAuthenticated' = l.isAuthenticated
        /\ calls' = l.calls
  /\ isLoading' = FALSE
  /\ authError' = NoError
  /\ UuidIssued
  /\ op' = Op("loadData", "")
  /\ UNCHANGED <<now, ticks, tampers>>

\* variant: the login does not look at the integrity check's answer
handleLogin_IntegrityIgnored(passwordAttempt, rememberMe, challengeBytes, nonceBytes) ==
  /\ ~isLoading
  /\ passwordInfo # Null
  /\ ~isAuthenticated
  /\ LET r == trackEnhancedFailedLogin(St, now)
         i == verifyEnhancedIntegrity(r.S, passwordInfo, randomUUID)
         isValid == verifyPassword(passwordAttempt, passwordInfo.hash,
                                   hexToBuffer(passwordInfo.salt))
         reset == resetEnhancedFailedLoginAttempts(i.S)
         cleared == [reset EXCEPT !.db = removeItem(removeItem(reset.db, SESSION_AUTH),
                                                    SESSION_CHALLENGE)]
         remembered == createEnhancedAuthChallenge(cleared, passwordInfo, now,
                                                   challengeBytes, nonceBytes)
         final == IF rememberMe
                    THEN [remembered EXCEPT !.db = setItem(remembered.db, SESSION_AUTH, TRUE)]
                    ELSE cleared
     IN IF r.isLocked
          THEN /\ authError' = TooManyAttempts(r.waitTime)
               /\ storage' = r.S.db
               /\ localStorage' = r.S.ls
               /\ calls' = <<"trackEnhancedFailedLogin">>
               /\ UNCHANGED isAuthenticated
          ELSE IF isValid
              THEN /\ authError' = NoError
                   /\ storage' = final.db
                   /\ localStorage' = final.ls
                   /\ calls' = <<"trackEnhancedFailedLogin", "verifyEnhancedIntegrity",
                                 "verifyPassword", "resetEnhancedFailedLoginAttempts">>
                                \o (IF rememberMe THEN <<"createEnhancedAuthChallenge">>
                                    ELSE <<>>)
                   /\ isAuthenticated' = TRUE
              ELSE /\ authError' = Err("Incorrect password.")
                   /\ storage' = i.S.db
                   /\ localStorage' = i.S.ls
                   /\ calls' = <<"trackEnhancedFailedLogin", "verifyEnhancedIntegrity",
                                 "verifyPassword">>
                   /\ isAuthenticated' = FALSE
  /\ UuidIssued
  /\ op' = Op("handleLogin", passwordAttempt)
  /\ UNCHANGED <<now, passwordInfo, isLoading, ticks, tampers>>

\* variant: the session is kept whether or not remember-me was asked for
handleLogin_SessionAlwaysKept(passwordAttempt, rememberMe, challengeBytes, nonceBytes) ==
  /\ ~isLoading
  /\ passwordInfo # Null
  /\ ~isAuthenticated
  /\ LET r == trackEnhancedFailedLogin(St, now)
         i == verifyEnhancedIntegrity(r.S, passwordInfo, randomUUID)
         isValid == verifyPassword(passwordAttempt, passwordInfo.hash,
                                   hexToBuffer(passwordInfo.salt))
         reset == resetEnhancedFailedLoginAttempts(i.S)
         cleared == [reset EXCEPT !.db = removeItem(removeItem(reset.db, SESSION_AUTH),
                                                    SESSION_CHALLENGE)]
         remembered == createEnhancedAuthChallenge(cleared, passwordInfo, now,
                                                   challengeBytes, nonceBytes)
         final == [remembered EXCEPT !.db = setItem(remembered.db, SESSION_AUTH, TRUE)]
     IN IF r.isLocked
          THEN /\ authError' = TooManyAttempts(r.waitTime)
               /\ storage' = r.S.db
               /\ localStorage' = r.S.ls
               /\ calls' = <<"trackEnhancedFailedLogin">>
               /\ UNCHANGED isAuthenticated
          ELSE IF ~i.ret
            THEN /\ authError' = Err("Security error: Authentication data may have been tampered with.")
                 /\ storage' = i.S.db
                 /\ localStorage' = i.S.ls
                 /\ calls' = <<"trackEnhancedFailedLogin", "verifyEnhancedIntegrity">>
                 /\ UNCHANGED isAuthenticated
            ELSE IF isValid
              THEN /\ authError' = NoError
                   /\ storage' = final.db
                   /\ localStorage' = final.ls
                   /\ calls' = <<"trackEnhancedFailedLogin", "verifyEnhancedIntegrity",
                                 "verifyPassword", "resetEnhancedFailedLoginAttempts">>
                                \o (IF rememberMe THEN <<"createEnhancedAuthChallenge">>
                                    ELSE <<>>)
                   /\ isAuthenticated' = TRUE
              ELSE /\ authError' = Err("Incorrect password.")
                   /\ storage' = i.S.db
                   /\ localStorage' = i.S.ls
                   /\ calls' = <<"trackEnhancedFailedLogin", "verifyEnhancedIntegrity",
                                 "verifyPassword">>
                   /\ isAuthenticated' = FALSE
  /\ UuidIssued
  /\ op' = Op("handleLogin", passwordAttempt)
  /\ UNCHANGED <<now, passwordInfo, isLoading, ticks, tampers>>

\* The login screen is rendered only when passwordInfo && !isAuthenticated.
handleLogin(passwordAttempt, rememberMe, challengeBytes, nonceBytes) ==
  /\ ~isLoading
  /\ passwordInfo # Null
  /\ ~isAuthenticated
  /\ LET r == trackEnhancedFailedLogin(St, now)
         i == verifyEnhancedIntegrity(r.S, passwordInfo, randomUUID)
         isValid == verifyPassword(passwordAttempt, passwordInfo.hash,
                                   hexToBuffer(passwordInfo.salt))
         reset == resetEnhancedFailedLoginAttempts(i.S)
         cleared == [reset EXCEPT !.db = removeItem(removeItem(reset.db, SESSION_AUTH),
                                                    SESSION_CHALLENGE)]
         remembered == createEnhancedAuthChallenge(cleared, passwordInfo, now,
                                                   challengeBytes, nonceBytes)
         final == IF rememberMe
                    THEN [remembered EXCEPT !.db = setItem(remembered.db, SESSION_AUTH, TRUE)]
                    ELSE cleared
     IN IF r.isLocked
          THEN /\ authError' = TooManyAttempts(r.waitTime)
               /\ storage' = r.S.db
               /\ localStorage' = r.S.ls
               /\ calls' = <<"trackEnhancedFailedLogin">>
               /\ UNCHANGED isAuthenticated
          ELSE IF ~i.ret
            THEN /\ authError' = Err("Security error: Authentication data may have been tampered with.")
                 /\ storage' = i.S.db
                 /\ localStorage' = i.S.ls
                 /\ calls' = <<"trackEnhancedFailedLogin", "verifyEnhancedIntegrity">>
                 /\ UNCHANGED isAuthenticated
            ELSE IF isValid
              THEN /\ authError' = NoError
                   /\ storage' = final.db
                   /\ localStorage' = final.ls
                   /\ calls' = <<"trackEnhancedFailedLogin", "verifyEnhancedIntegrity",
                                 "verifyPassword", "resetEnhancedFailedLoginAttempts">>
                                \o (IF rememberMe THEN <<"createEnhancedAuthChallenge">>
                                    ELSE <<>>)
                   /\ isAuthenticated' = TRUE
              ELSE /\ authError' = Err("Incorrect password.")
                   /\ storage' = i.S.db
                   /\ localStorage' = i.S.ls
                   /\ calls' = <<"trackEnhancedFailedLogin", "verifyEnhancedIntegrity",
                                 "verifyPassword">>
                   /\ isAuthenticated' = FALSE
  /\ UuidIssued
  /\ op' = Op("handleLogin", passwordAttempt)
  /\ UNCHANGED <<now, passwordInfo, isLoading, ticks, tampers>>

\* Settings offers "set password" when no password is set.
handleSetPassword(newPassword, salt) ==
  /\ ~isLoading
  /\ passwordInfo = Null
  /\ bootCountOf(storage) < MaxBoot
  /\ IF newPassword = ""
       THEN /\ authError' = Err("Password cannot be empty.")
            /\ UNCHANGED <<storage, localStorage, passwordInfo, isAuthenticated>>
            /\ calls' = <<>>
       ELSE IF Len(newPassword) < MIN_PASSWORD_LENGTH
         THEN /\ authError' = Err("Password must be at least 8 characters long.")
              /\ UNCHANGED <<storage, localStorage, passwordInfo, isAuthenticated>>
              /\ calls' = <<>>
         ELSE
           LET newPasswordInfo == NewPasswordInfo(newPassword, salt)
               S1 == [St EXCEPT !.db = setItem(storage, PASSWORD_INFO, newPasswordInfo)]
               S2 == storeEnhancedIntegrityData(S1, newPasswordInfo, now, randomUUID)
           IN /\ authError' = NoError
              /\ storage' = S2.db
              /\ localStorage' = S2.ls
              /\ passwordInfo' = newPasswordInfo
              /\ isAuthenticated' = TRUE
              /\ calls' = <<"hashPassword", "storeEnhancedIntegrityData">>
  /\ UuidIssued
  /\ op' = Op("handleSetPassword", newPassword)
  /\ UNCHANGED <<now, isLoading, ticks, tampers>>

\* Settings is reachable once the login screen is passed.
handleChangePassword(currentPassword, newPassword, salt) ==
  /\ ~isLoading
  /\ passwordInfo # Null
  /\ isAuthenticated
  /\ bootCountOf(storage) < MaxBoot
  /\ IF Len(newPassword) < MIN_PASSWORD_LENGTH
       THEN /\ authError' = Err("New password must be at least 8 characters long.")
            /\ UNCHANGED <<storage, localStorage, passwordInfo>>
            /\ calls' = <<>>
       ELSE
         LET i == verifyEnhancedIntegrity(St, passwordInfo, randomUUID)
             isValid == verifyPassword(currentPassword, passwordInfo.hash,
                                       hexToBuffer(passwordInfo.salt))
             newPasswordInfo == NewPasswordInfo(newPassword, salt)
             S1 == [i.S EXCEPT !.db = setItem(i.S.db, PASSWORD_INFO, newPasswordInfo)]
             S2 == storeEnhancedIntegrityData(S1, newPasswordInfo, now, randomUUID)
             S3 == lockApplication(S2)
         IN IF ~i.ret
              THEN /\ authError' = Err("Security error: Authentication data may have been tampered with.")
                   /\ storage' = i.S.db
                   /\ localStorage' = i.S.ls
                   /\ calls' = <<"verifyEnhancedIntegrity">>
                   /\ UNCHANGED passwordInfo
              ELSE IF ~isValid
                THEN /\ authError' = Err("Current password is incorrect.")
                     /\ storage' = i.S.db
                     /\ localStorage' = i.S.ls
                     /\ calls' = <<"verifyEnhancedIntegrity", "verifyPassword">>
                     /\ UNCHANGED passwordInfo
                ELSE /\ authError' = NoError
                     /\ storage' = S3.db
                     /\ localStorage' = S3.ls
                     /\ passwordInfo' = newPasswordInfo
                     /\ calls' = <<"verifyEnhancedIntegrity", "verifyPassword", "hashPassword",
                                   "storeEnhancedIntegrityData", "lockApplication">>
  /\ UuidIssued
  /\ op' = Op("handleChangePassword", currentPassword)
  /\ UNCHANGED <<now, isAuthenticated, isLoading, ticks, tampers>>

\* variant: the backup integrity copy is left behind
RemovedKeys_BackupKept ==
  <<PASSWORD_INFO, INTEGRITY, FAILED_ATTEMPTS, SESSION_AUTH, SESSION_CHALLENGE,
    SECURITY_METADATA, FAILED_ATTEMPTS_BACKUP, BOOT_VERIFICATION>>

\* every key handleRemovePassword deletes from the store, in its order
RemovedKeys ==
  <<PASSWORD_INFO, INTEGRITY, FAILED_ATTEMPTS, SESSION_AUTH, SESSION_CHALLENGE,
    INTEGRITY_BACKUP, SECURITY_METADATA, FAILED_ATTEMPTS_BACKUP, BOOT_VERIFICATION>>

\* variant: the removal does not look at the integrity check's answer
handleRemovePassword_IntegrityIgnored(currentPassword) ==
  /\ ~isLoading
  /\ passwordInfo # Null
  /\ isAuthenticated
  /\ LET i == verifyEnhancedIntegrity(St, passwordInfo, randomUUID)
         isValid == verifyPassword(currentPassword, passwordInfo.hash,
                                   hexToBuffer(passwordInfo.salt))
         removed == [k \in (DOMAIN i.S.db) \ {RemovedKeys[n] : n \in DOMAIN RemovedKeys}
                       |-> i.S.db[k]]
     IN IF ~isValid
            THEN /\ authError' = Err("Current password is incorrect.")
                 /\ storage' = i.S.db
                 /\ localStorage' = i.S.ls
                 /\ calls' = <<"verifyEnhancedIntegrity", "verifyPassword">>
                 /\ UNCHANGED <<passwordInfo, isAuthenticated>>
            ELSE /\ authError' = NoError
                 /\ storage' = removed
                 /\ localStorage' = removeItem(removeItem(i.S.ls, "security_metadata_backup"),
                                               "security_lockout")
                 /\ passwordInfo' = Null
                 /\ isAuthenticated' = TRUE
                 /\ calls' = <<"verifyEnhancedIntegrity", "verifyPassword">>
  /\ UuidIssued
  /\ op' = Op("handleRemovePassword", currentPassword)
  /\ UNCHANGED <<now, isLoading, ticks, tampers>>

handleRemovePassword(currentPassword) ==
  /\ ~isLoading
  /\ passwordInfo # Null
  /\ isAuthenticated
  /\ LET i == verifyEnhancedIntegrity(St, passwordInfo, randomUUID)
         isValid == verifyPassword(currentPassword, passwordInfo.hash,
                                   hexToBuffer(passwordInfo.salt))
         removed == [k \in (DOMAIN i.S.db) \ {RemovedKeys[n] : n \in DOMAIN RemovedKeys}
                       |-> i.S.db[k]]
     IN IF ~i.ret
          THEN /\ authError' = Err("Security error: Authentication data may have been tampered with.")
               /\ storage' = i.S.db
               /\ localStorage' = i.S.ls
               /\ calls' = <<"verifyEnhancedIntegrity">>
               /\ UNCHANGED <<passwordInfo, isAuthenticated>>
          ELSE IF ~isValid
            THEN /\ authError' = Err("Current password is incorrect.")
                 /\ storage' = i.S.db
                 /\ localStorage' = i.S.ls
                 /\ calls' = <<"verifyEnhancedIntegrity", "verifyPassword">>
                 /\ UNCHANGED <<passwordInfo, isAuthenticated>>
            ELSE /\ authError' = NoError
                 /\ storage' = removed
                 /\ localStorage' = removeItem(removeItem(i.S.ls, "security_metadata_backup"),
                                               "security_lockout")
                 /\ passwordInfo' = Null
                 /\ isAuthenticated' = TRUE
                 /\ calls' = <<"verifyEnhancedIntegrity", "verifyPassword">>
  /\ UuidIssued
  /\ op' = Op("handleRemovePassword", currentPassword)
  /\ UNCHANGED <<now, isLoading, ticks, tampers>>

\* The lock button: lockApplication, then window.close() unmounts the popup.
handleLockExtension ==
  /\ ~isLoading
  /\ passwordInfo # Null
  /\ isAuthenticated
  /\ LET S1 == lockApplication(St)
     IN /\ storage' = S1.db
        /\ localStorage' = S1.ls
  /\ isAuthenticated' = FALSE
  /\ isLoading' = TRUE
  /\ passwordInfo' = Null
  /\ authError' = NoError
  /\ calls' = <<"lockApplication">>
  /\ UuidIssued
  /\ op' = Op("handleLockExtension", "")
  /\ UNCHANGED <<now, ticks, tampers>>

\* What handleImportData leaves in the stores: the folders, and for a file that
\* carries a passwordInfo the credential, its integrity data and the lock.
importedStores(S, dataPasswordInfo, t, uuid) ==
  IF dataPasswordInfo = Null
    THEN S
    ELSE lockApplication(
           storeEnhancedIntegrityData(
             [S EXCEPT !.db = setItem(S.db, PASSWORD_INFO, dataPasswordInfo)],
             dataPasswordInfo, t, uuid))

\* Settings import of a file; dataPasswordInfo is Null if the file has none.
handleImportData(folders, dataPasswordInfo, salt, iv) ==
  /\ ~isLoading
  /\ passwordInfo = Null \/ isAuthenticated
  /\ bootCountOf(storage) < MaxBoot
  /\ storage' = importedStores(storeFoldersSecurely(St, folders, salt, iv),
                               dataPasswordInfo, now, randomUUID).db
  /\ localStorage' = importedStores(storeFoldersSecurely(St, folders, salt, iv),
                                    dataPasswordInfo, now, randomUUID).ls
  /\ passwordInfo' = IF dataPasswordInfo = Null THEN passwordInfo ELSE dataPasswordInfo
  /\ calls' = IF dataPasswordInfo = Null THEN <<>>
              ELSE <<"storeEnhancedIntegrityData", "lockApplication">>
  /\ UuidIssued
  /\ op' = Op("handleImportData", "")
  /\ UNCHANGED <<now, isAuthenticated, isLoading, authError, ticks, tampers>>

\* ------------------------------------------------- folder store operations
\* the operation name with the value the operation returned
Returned(name, ret) == [name |-> name, password |-> "", ret |-> ret]

FolderStep(S, returned) ==
  /\ storage' = S.db
  /\ localStorage' = S.ls
  /\ op' = returned
  /\ calls' = <<>>
  /\ UNCHANGED <<now, passwordInfo, isAuthenticated, isLoading, authError, ticks, tampers,
                 uuidsIssued>>

\* how many times over the value stored under FOLDERS is encrypted
RECURSIVE nesting(_)
nesting(data) ==
  IF IsString(data)
    THEN 1 + nesting(base64ToArrayBuffer(data)[3].aesgcm.utf8[1].value)
    ELSE 0

\* the main screen is shown: the popup has loaded and is not locked
Unlocked == ~isLoading /\ (passwordInfo = Null \/ isAuthenticated)

\* The user edits folders or snippets: setItem('local:folders', array) of the
\* storage context, which stores through storeFoldersSecurely.
saveFolders(folders, salt, iv) ==
  /\ Unlocked
  /\ FolderStep(storeFoldersSecurely(St, folders, salt, iv), Op("saveFolders", ""))

\* The user edits folders while encryptData throws (crypto.subtle refuses the
\* key derivation or the encryption).
saveFoldersEncryptionFails(folders) ==
  /\ Unlocked
  /\ isEncryptionEnabled(St)
  /\ getItem(storage, PASSWORD_INFO) # Null
  /\ FolderStep(storeFoldersSecurelyOutcome(St, folders, [ok |-> FALSE, value |-> Null]).S,
                [name |-> "saveFoldersEncryptionFails", password |-> "",
                 threw |-> storeFoldersSecurelyOutcome(St, folders,
                                                       [ok |-> FALSE, value |-> Null]).threw])

\* Settings, the encryption switch: off writes the flag alone, on migrates and
\* needs the popup to hold a passwordInfo.
handleToggleEncryption(salt, iv) ==
  /\ Unlocked
  /\ IF isEncryptionEnabled(St)
       THEN FolderStep(setEncryptionEnabled(St, FALSE),
                       Returned("handleToggleEncryption", TRUE))
       ELSE /\ passwordInfo # Null
            /\ nesting(getItem(storage, FOLDERS)) < MaxNesting
            /\ FolderStep(migrateToEncryptedStorage(St, salt, iv).S,
                          Returned("handleToggleEncryption",
                                   migrateToEncryptedStorage(St, salt, iv).ret))

\* the storage context's migrateToEncryptedStorage, called as it is exported
migrateToEncrypted(salt, iv) ==
  /\ Unlocked
  /\ nesting(getItem(storage, FOLDERS)) < MaxNesting
  /\ FolderStep(migrateToEncryptedStorage(St, salt, iv).S,
                Returned("migrateToEncryptedStorage",
                         migrateToEncryptedStorage(St, salt, iv).ret))

\* migrateToUnencryptedStorage, called as it is exported
migrateToUnencrypted ==
  /\ Unlocked
  /\ FolderStep(migrateToUnencryptedStorage(St).S,
                Returned("migrateToUnencryptedStorage", migrateToUnencryptedStorage(St).ret))

\* ------------------------------------------------- encryption on its own
\* code units a text or a password is made of
CodeUnits == {[cu |-> "a"], [cu |-> "FEFF"], [cu |-> "FFFD"], [cu |-> "D800"]}

RECURSIVE TextsOfLen(_)
TextsOfLen(n) ==
  IF n = 0 THEN {<<>>}
  ELSE {Append(t, c) : t \in TextsOfLen(n - 1), c \in CodeUnits}

Texts == UNION {TextsOfLen(n) : n \in 0..MaxTextLen}

\* passwords handed to encryptData and decryptData
KeyTexts == {<<[cu |-> "a"]>>, <<[cu |-> "a"], [cu |-> "a"]>>,
             <<[cu |-> "D800"]>>, <<[cu |-> "D801"]>>}

\* encryptData is called on a text and a password
callEncryptData(data, password, salt, iv) ==
  /\ op' = [name |-> "encryptData", password |-> "", data |-> data, key |-> password,
            ret |-> encryptData(data, password, salt, iv)]
  /\ calls' = <<"encryptData">>
  /\ UNCHANGED <<storage, localStorage, now, passwordInfo, isAuthenticated, isLoading,
                 authError, ticks, tampers, uuidsIssued>>

\* decryptData is called on the blob that encryptData just returned
callDecryptData(password) ==
  /\ op.name = "encryptData"
  /\ op' = [name |-> "decryptData", password |-> "", encrypted |-> op, key |-> password,
            ret |-> decryptData(op.ret, password)]
  /\ calls' = <<"decryptData">>
  /\ UNCHANGED <<storage, localStorage, now, passwordInfo, isAuthenticated, isLoading,
                 authError, ticks, tampers, uuidsIssued>>

\* ------------------------------------------------- storage failure
\* The popup is opened while the database cannot be opened: every getItem
\* catches the error and returns null, every setItem throws. The boot check and
\* updateSecurityMetadata swallow the failed write, having created the device
\* id in localStorage if there was none; loadData finds no passwordInfo.
loadDataStorageUnavailable ==
  /\ storage' = storage
  /\ localStorage' = generateDeviceId([db |-> EmptyStore, ls |-> localStorage], randomUUID).S.ls
  /\ passwordInfo' = Null
  /\ isAuthenticated' = TRUE
  /\ isLoading' = FALSE
  /\ authError' = NoError
  /\ calls' = <<"performSecurityBootCheck">>
  /\ UuidIssued
  /\ op' = Op("loadDataStorageUnavailable", "")
  /\ UNCHANGED <<now, ticks, tampers>>

\* ------------------------------------------------- two popups
\* Two popup windows of the extension share the store. Each has loaded the same
\* credential and shows the login screen; each runs handleLogin with a wrong
\* password. trackEnhancedFailedLogin yields at every await, so the steps of
\* the two popups interleave: read the record, write the primary copy, write
\* the backup copy, return to handleLogin.
Popups == {1, 2}

IdlePopup == [pc |-> "idle", read |-> Null, attempts |-> Null,
              isLocked |-> FALSE, waitTime |-> 0, authError |-> NoError]

popups == IF "popups" \in DOMAIN op THEN op.popups ELSE [i \in Popups |-> IdlePopup]

\* failed logins the two popups have completed and had counted
failures == IF "failures" \in DOMAIN op THEN op.failures ELSE 0

AllIdle == \A i \in Popups : popups[i].pc = "idle"

\* two popups have been inside trackEnhancedFailedLogin, past its reads and
\* before the end of its writes, at the same time
overlapped == IF "overlapped" \in DOMAIN op THEN op.overlapped ELSE FALSE

WritesPending(p) == {i \in Popups : p[i].pc \in {"writePrimary", "writeBackup"}}

RaceOp(p, f) == [name |-> "trackEnhancedFailedLogin", password |-> "",
                 popups |-> p, failures |-> f,
                 overlapped |-> overlapped \/ Cardinality(WritesPending(p)) > 1]

isLockedAt(attempts, t) == attempts.lockedUntil # 0 /\ t < attempts.lockedUntil

\* the record trackEnhancedFailedLogin builds from the one it read
countedAttempts(attempts, t) ==
  LET idle == t - attempts.lastAttempt > IDLE_RESET_MS
      count == (IF idle THEN 0 ELSE attempts.count) + 1
      pushed == Append(IF idle THEN <<>> ELSE attempts.attemptHistory, t)
      history == IF Len(pushed) > HISTORY_MAX THEN Tail(pushed) ELSE pushed
      counted == [count |-> count, lastAttempt |-> t,
                  lockedUntil |-> attempts.lockedUntil,
                  attemptHistory |-> history]
  IN IF count >= MAX_FAILED
       THEN [counted EXCEPT !.lockedUntil = t + LOCKOUT_MS]
       ELSE counted

OnLoginScreen == ~isLoading /\ passwordInfo # Null /\ ~isAuthenticated

RaceStep(S, p, f) ==
  /\ storage' = S.db
  /\ localStorage' = S.ls
  /\ op' = RaceOp(p, f)
  /\ calls' = <<"trackEnhancedFailedLogin">>
  /\ UuidIssued
  /\ UNCHANGED <<now, passwordInfo, isAuthenticated, isLoading, authError, ticks, tampers>>

\* the two getItem calls and the synchronous code up to the first setItem
trackEnhancedFailedLogin_read(i) ==
  /\ OnLoginScreen
  /\ popups[i].pc = "idle"
  /\ failures < MaxFailures
  /\ LET attempts == loadAttempts(St)
     IN IF isLockedAt(attempts, now)
          THEN RaceStep(St, [popups EXCEPT ![i] =
                              [pc |-> "return", read |-> attempts, attempts |-> attempts,
                               isLocked |-> TRUE,
                               waitTime |-> ceilSeconds(attempts.lockedUntil - now),
                               authError |-> popups[i].authError]], failures)
          ELSE RaceStep(St, [popups EXCEPT ![i] =
                              [pc |-> "writePrimary", read |-> attempts,
                               attempts |-> countedAttempts(attempts, now),
                               isLocked |-> countedAttempts(attempts, now).count >= MAX_FAILED,
                               waitTime |-> IF countedAttempts(attempts, now).count >= MAX_FAILED
                                              THEN LOCKOUT_WAIT_S ELSE 0,
                               authError |-> popups[i].authError]], failures)

\* variant: the write is made from the record as stored at the time of writing
trackEnhancedFailedLogin_writePrimary_Serialised(i) ==
  /\ popups[i].pc = "writePrimary"
  /\ RaceStep([St EXCEPT !.db = setItem(St.db, FAILED_ATTEMPTS,
                                        countedAttempts(loadAttempts(St), now))],
              [popups EXCEPT ![i].pc = "writeBackup"], failures)

\* await storage.setItem(FAILED_ATTEMPTS, attempts)
trackEnhancedFailedLogin_writePrimary(i) ==
  /\ popups[i].pc = "writePrimary"
  /\ RaceStep([St EXCEPT !.db = setItem(St.db, FAILED_ATTEMPTS, popups[i].attempts)],
              [popups EXCEPT ![i].pc = "writeBackup"], failures)

\* variant: the backup copy is not written
trackEnhancedFailedLogin_writeBackup_Skipped(i) ==
  /\ popups[i].pc = "writeBackup"
  /\ LET S1 == St
         S2 == IF popups[i].isLocked
                 THEN [S1 EXCEPT !.ls = setItem(S1.ls, "security_lockout",
                                  [lockedUntil |-> popups[i].attempts.lockedUntil])]
                 ELSE S1
     IN RaceStep(S2, [popups EXCEPT ![i].pc = "return"], failures + 1)

\* await storage.setItem(FAILED_ATTEMPTS_BACKUP, attempts), then the lockout
\* note in localStorage when the account was locked
trackEnhancedFailedLogin_writeBackup(i) ==
  /\ popups[i].pc = "writeBackup"
  /\ LET S1 == [St EXCEPT !.db = setItem(St.db, FAILED_ATTEMPTS_BACKUP, popups[i].attempts)]
         S2 == IF popups[i].isLocked
                 THEN [S1 EXCEPT !.ls = setItem(S1.ls, "security_lockout",
                                  [lockedUntil |-> popups[i].attempts.lockedUntil])]
                 ELSE S1
     IN RaceStep(S2, [popups EXCEPT ![i].pc = "return"], failures + 1)

\* handleLogin after trackEnhancedFailedLogin has returned; the password typed
\* is a wrong one
handleLogin_afterTrack(i) ==
  /\ popups[i].pc = "return"
  /\ LET v == verifyEnhancedIntegrity(St, passwordInfo, randomUUID)
     IN IF popups[i].isLocked
          THEN RaceStep(St, [popups EXCEPT ![i] =
                              [IdlePopup EXCEPT !.authError = TooManyAttempts(popups[i].waitTime)]],
                        failures)
          ELSE RaceStep(v.S, [popups EXCEPT ![i] =
                               [IdlePopup EXCEPT !.authError =
                                  IF v.ret THEN Err("Incorrect password.")
                                  ELSE Err("Security error: Authentication data may have been tampered with.")]],
                        failures)

\* ------------------------------------------------- interrupted operations
\* one record written to, or deleted from, extension storage or localStorage
dbPut(S, key, value) == [S EXCEPT !.db = setItem(S.db, key, value)]

dbDel(S, key) == [S EXCEPT !.db = removeItem(S.db, key)]

lsPut(S, key, value) == [S EXCEPT !.ls = setItem(S.ls, key, value)]

\* storeEnhancedIntegrityData up to its first write: the primary copy (the
\* device id is created on the way if there is none)
writeIntegrity(S, newPasswordInfo, t, uuid) ==
  LET h == createIntegrityHashes(S, newPasswordInfo, uuid)
      g == generateDeviceId(h.S, uuid)
  IN dbPut(g.S, INTEGRITY, [primaryHash |-> h.primaryHash,
                            secondaryHash |-> h.secondaryHash,
                            timestamp |-> t,
                            deviceId |-> g.ret,
                            version |-> 1])

\* its second write: the backup copy, the primary copy with a later timestamp
writeIntegrityBackup(S, t) ==
  dbPut(S, INTEGRITY_BACKUP, [getItem(S.db, INTEGRITY) EXCEPT !.timestamp = t + 1])

\* updateSecurityMetadata up to its first write: the metadata record
writeSecurityMetadata(S, t, uuid) ==
  LET existingMetadata == getItem(S.db, SECURITY_METADATA)
      c == createSecurityChecksum(S, t, uuid)
  IN dbPut(c.S, SECURITY_METADATA,
           [checksum |-> c.ret,
            lastVerified |-> t,
            securityVersion |-> 1,
            bootCount |-> (IF existingMetadata = Null THEN 0
                           ELSE existingMetadata.bootCount) + 1])

\* its second write: the copy of the checksum in localStorage
writeSecurityMetadataBackup(S, t) ==
  lsPut(S, "security_metadata_backup",
        [checksum |-> getItem(S.db, SECURITY_METADATA).checksum, lastVerified |-> t])

\* The stores after each storage write of storeEnhancedIntegrityData, in order:
\* device id (if it has to be created), primary copy, backup copy, security
\* metadata, metadata backup in localStorage.
storeEnhancedIntegrityDataWrites(S, newPasswordInfo, t, uuid) ==
  <<createIntegrityHashes(S, newPasswordInfo, uuid).S,
    writeIntegrity(S, newPasswordInfo, t, uuid),
    writeIntegrityBackup(writeIntegrity(S, newPasswordInfo, t, uuid), t),
    writeSecurityMetadata(
      writeIntegrityBackup(writeIntegrity(S, newPasswordInfo, t, uuid), t), t, uuid),
    writeSecurityMetadataBackup(
      writeSecurityMetadata(
        writeIntegrityBackup(writeIntegrity(S, newPasswordInfo, t, uuid), t), t, uuid), t)>>

\* variant: the integrity data is written first and the Credential Record last
setPasswordWrites_CredentialLast(S, newPasswordInfo, t, uuid) ==
  storeEnhancedIntegrityDataWrites(S, newPasswordInfo, t, uuid)
    \o <<dbPut(storeEnhancedIntegrityData(S, newPasswordInfo, t, uuid),
               PASSWORD_INFO, newPasswordInfo)>>

\* The stores after each storage write of handleSetPassword: the Credential
\* Record, then the writes of storeEnhancedIntegrityData.
setPasswordWrites(S, newPasswordInfo, t, uuid) ==
  <<dbPut(S, PASSWORD_INFO, newPasswordInfo)>>
    \o storeEnhancedIntegrityDataWrites(dbPut(S, PASSWORD_INFO, newPasswordInfo),
                                        newPasswordInfo, t, uuid)

\* the two removals of lockApplication, after the writes w
lockApplicationWrites(w) ==
  w \o <<dbDel(w[Len(w)], SESSION_AUTH),
         dbDel(dbDel(w[Len(w)], SESSION_AUTH), SESSION_CHALLENGE)>>

\* The stores after each storage write of handleChangePassword once the current
\* password is accepted: as setPassword, then the two removals of lockApplication.
changePasswordWrites(S, newPasswordInfo, t, uuid) ==
  lockApplicationWrites(setPasswordWrites(S, newPasswordInfo, t, uuid))

\* the operation stops after the k-th of the writes w, which is not the last
InterruptedAfter(w, k) ==
  /\ k < Len(w)
  /\ storage' = w[k].db
  /\ localStorage' = w[k].ls

\* write positions after which an operation can be cut short
CrashPoints == 1..7

\* The popup is gone: a popup opened later starts from the initial React state.
PopupGone ==
  /\ passwordInfo' = Null
  /\ isAuthenticated' = FALSE
  /\ isLoading' = TRUE
  /\ authError' = NoError

\* handleSetPassword cut short (popup closed, browser killed) after its k-th
\* storage write and before its last one.
handleSetPasswordInterrupted(newPassword, salt, k) ==
  /\ ~isLoading
  /\ passwordInfo = Null
  /\ bootCountOf(storage) < MaxBoot
  /\ newPassword # ""
  /\ Len(newPassword) >= MIN_PASSWORD_LENGTH
  /\ InterruptedAfter(setPasswordWrites(St, NewPasswordInfo(newPassword, salt), now,
                                        randomUUID), k)
  /\ PopupGone
  /\ calls' = <<"hashPassword">>
  /\ UuidIssued
  /\ op' = Op("handleSetPasswordInterrupted", newPassword)
  /\ UNCHANGED <<now, ticks, tampers>>

\* handleChangePassword cut short after the k-th storage write that follows the
\* accepted current password, and before its last one.
handleChangePasswordInterrupted(currentPassword, newPassword, salt, k) ==
  /\ ~isLoading
  /\ passwordInfo # Null
  /\ isAuthenticated
  /\ bootCountOf(storage) < MaxBoot
  /\ Len(newPassword) >= MIN_PASSWORD_LENGTH
  /\ verifyEnhancedIntegrity(St, passwordInfo, randomUUID).ret
  /\ verifyPassword(currentPassword, passwordInfo.hash, hexToBuffer(passwordInfo.salt))
  /\ InterruptedAfter(changePasswordWrites(verifyEnhancedIntegrity(St, passwordInfo, randomUUID).S,
                                           NewPasswordInfo(newPassword, salt), now,
                                           randomUUID), k)
  /\ PopupGone
  /\ calls' = <<"verifyEnhancedIntegrity", "verifyPassword", "hashPassword">>
  /\ UuidIssued
  /\ op' = Op("handleChangePasswordInterrupted", currentPassword)
  /\ UNCHANGED <<now, ticks, tampers>>

\* Time passes.
Tick(d) ==
  /\ ticks < MaxTicks
  /\ now' = now + d
  /\ ticks' = ticks + 1
  /\ UNCHANGED <<storage, localStorage, passwordInfo, isAuthenticated, isLoading,
                 authError, op, calls, tampers, uuidsIssued>>

\* The user waits until the running lockout is over.
LockoutElapses ==
  /\ isLockedAt(loadAttempts(St), now)
  /\ loadAttempts(St).count < MaxAttempts
  /\ now' = loadAttempts(St).lockedUntil
  /\ UNCHANGED <<storage, localStorage, passwordInfo, isAuthenticated, isLoading,
                 authError, op, calls, ticks, tampers, uuidsIssued>>

\* ------------------------------------------------- the untrusted medium
\* Credential records that can be written into the store from outside.
ForgedPasswordInfos == {NewPasswordInfo("hunter2hunter2", "salt-b")}

\* Folder arrays the user saves or an imported file carries.
FolderArrays == {Folders(<<>>), Folders(<<"note-a", "note-b">>)}

ImportedFolders == {Folders(<<"note-a">>)}

\* window.crypto.getRandomValues for the salt and the iv of one encryption
EncryptionSalt == "esalt-a"
EncryptionIv == "iv-a"

\* Credential records carried by an imported file.
ImportedPasswordInfos == {NewPasswordInfo("correcthorse1", "salt-b")}

\* Passwords typed into the login screen and the current-password field.
TypedPasswords == {"correcthorse1", "hunter2hunter2"}

Tampered(name) ==
  /\ tampers < MaxTamper
  /\ tampers' = tampers + 1
  /\ op' = Op(name, "")
  /\ calls' = <<>>
  /\ UNCHANGED <<now, passwordInfo, isAuthenticated, isLoading, authError, ticks, uuidsIssued>>

\* The stored credential is overwritten (a flipped hash, another password's hash).
TamperPasswordInfo(forged) ==
  /\ PASSWORD_INFO \in DOMAIN storage
  /\ storage[PASSWORD_INFO] # forged
  /\ storage' = setItem(storage, PASSWORD_INFO, forged)
  /\ UNCHANGED localStorage
  /\ Tampered("TamperPasswordInfo")

\* Stored records are deleted.
TamperRemove(keys) ==
  /\ keys \subseteq DOMAIN storage
  /\ storage' = [k \in (DOMAIN storage) \ keys |-> storage[k]]
  /\ UNCHANGED localStorage
  /\ Tampered("TamperRemove")

\* One integrity copy is overwritten with the hashes of another record.
TamperIntegrity(key, forged) ==
  /\ key \in DOMAIN storage
  /\ "device_id" \in DOMAIN localStorage
  /\ LET h == createIntegrityHashes(St, forged, localStorage["device_id"])
         corrupted == [storage[key] EXCEPT !.primaryHash = h.primaryHash,
                                           !.secondaryHash = h.secondaryHash]
     IN /\ corrupted # storage[key]
        /\ storage' = setItem(storage, key, corrupted)
  /\ UNCHANGED localStorage
  /\ Tampered("TamperIntegrity")

\* localStorage is cleared (site data wiped); the device id is lost.
ClearLocalStorage ==
  /\ localStorage # EmptyStore
  /\ localStorage' = EmptyStore
  /\ UNCHANGED storage
  /\ Tampered("ClearLocalStorage")

TamperableKeys == {PASSWORD_INFO, INTEGRITY, INTEGRITY_BACKUP, SESSION_AUTH, SESSION_CHALLENGE}

\* one record, or both integrity copies together
TamperableKeySets == {{k} : k \in TamperableKeys} \cup {{INTEGRITY, INTEGRITY_BACKUP}}

\* window.crypto.getRandomValues for a salt: a value other than the current one
generateSalt == CHOOSE s \in Salts : passwordInfo = Null \/ bufferToHex(s) # passwordInfo.salt

\* the popup's operations
Handlers ==
  \/ loadData
  \/ \E p \in TypedPasswords, r \in BOOLEAN, c \in Challenges, n \in Nonces :
       handleLogin(p, r, c, n)
  \/ \E p \in Passwords \cup {""} : handleSetPassword(p, generateSalt)
  \/ \E cur \in TypedPasswords, new \in Passwords :
       handleChangePassword(cur, new, generateSalt)
  \/ \E cur \in TypedPasswords : handleRemovePassword(cur)
  \/ handleLockExtension

Tampering ==
  \/ \E pi \in ForgedPasswordInfos : TamperPasswordInfo(pi)
  \/ \E ks \in TamperableKeySets : TamperRemove(ks)
  \/ \E k \in {INTEGRITY, INTEGRITY_BACKUP}, pi \in ForgedPasswordInfos : TamperIntegrity(k, pi)
  \/ ClearLocalStorage

\* The popup on an untrusted medium; the clock is held still.
Next ==
  \/ Handlers
  \/ Tampering

Spec == Init /\ [][Next]_vars

\* The login path with a moving clock: lockout and session lifetime.
NextClock ==
  \/ loadData
  \/ \E p \in TypedPasswords, r \in BOOLEAN, c \in Challenges, n \in Nonces :
       handleLogin(p, r, c, n)
  \/ \E p \in Passwords \cup {""} : handleSetPassword(p, generateSalt)
  \/ handleLockExtension
  \/ \E d \in Deltas : Tick(d)

SpecClock == Init /\ [][NextClock]_vars

\* One unlocked popup after another, with operations that can be cut short
\* between two storage writes. Apart from them only the security metadata can be
\* deleted from outside; nobody logs in and the clock is held still.
NextCrash ==
  \/ loadData
  \/ \E p \in Passwords \cup {""} : handleSetPassword(p, generateSalt)
  \/ \E cur \in TypedPasswords, new \in Passwords :
       handleChangePassword(cur, new, generateSalt)
  \/ \E cur \in TypedPasswords : handleRemovePassword(cur)
  \/ \E p \in Passwords, k \in CrashPoints :
       handleSetPasswordInterrupted(p, generateSalt, k)
  \/ \E cur \in TypedPasswords, new \in Passwords, k \in CrashPoints :
       handleChangePasswordInterrupted(cur, new, generateSalt, k)
  \/ TamperRemove({SECURITY_METADATA})

SpecCrash == Init /\ [][NextCrash]_vars

last(w) == w[Len(w)]

\* the writes listed for an operation end where the whole operation ends
WritesAgreeWithOperations ==
  \A p \in TypedPasswords, s \in Salts :
    /\ last(setPasswordWrites(St, NewPasswordInfo(p, s), now, randomUUID))
         = storeEnhancedIntegrityData(dbPut(St, PASSWORD_INFO, NewPasswordInfo(p, s)),
                                      NewPasswordInfo(p, s), now, randomUUID)
    /\ last(changePasswordWrites(St, NewPasswordInfo(p, s), now, randomUUID))
         = lockApplication(
             storeEnhancedIntegrityData(dbPut(St, PASSWORD_INFO, NewPasswordInfo(p, s)),
                                        NewPasswordInfo(p, s), now, randomUUID))

\* The popup with its folder store: folders are saved and imported, encryption
\* is switched and migrated, the password is set, changed and removed. Nobody
\* tampers, nobody logs in and the clock is held still.
NextFolders ==
  \/ loadData
  \/ handleSetPassword("correcthorse1", generateSalt)
  \/ \E cur \in TypedPasswords : handleChangePassword(cur, "hunter2hunter2", generateSalt)
  \/ \E cur \in TypedPasswords : handleRemovePassword(cur)
  \/ \E f \in ImportedFolders, pi \in ImportedPasswordInfos \cup {Null} :
       handleImportData(f, pi, EncryptionSalt, EncryptionIv)
  \/ \E f \in FolderArrays : saveFolders(f, EncryptionSalt, EncryptionIv)
  \/ \E f \in FolderArrays : saveFoldersEncryptionFails(f)
  \/ handleToggleEncryption(EncryptionSalt, EncryptionIv)
  \/ migrateToEncrypted(EncryptionSalt, EncryptionIv)
  \/ migrateToUnencrypted

SpecFolders == Init /\ [][NextFolders]_vars

\* The popup with logins and imports: the password is set and changed, the
\* popup is locked and unlocked, a file is imported with or without a credential.
\* Nobody tampers and the clock is held still.
NextImport ==
  \/ loadData
  \/ \E p \in TypedPasswords, r \in BOOLEAN, c \in Challenges, n \in Nonces :
       handleLogin(p, r, c, n)
  \/ \E p \in Passwords \cup {""} : handleSetPassword(p, generateSalt)
  \/ \E cur \in TypedPasswords, new \in Passwords :
       handleChangePassword(cur, new, generateSalt)
  \/ \E f \in ImportedFolders, pi \in ImportedPasswordInfos \cup {Null} :
       handleImportData(f, pi, EncryptionSalt, EncryptionIv)
  \/ handleLockExtension

SpecImport == Init /\ [][NextImport]_vars

\* The login rate limiter over idle times: wrong and right passwords are typed
\* with pauses around half an hour, and the primary copy of the Rate-Limit
\* Record, or both copies, can be deleted from the store. The popup is opened
\* once.
NextLimiter ==
  \/ isLoading /\ loadData
  \/ handleSetPassword("correcthorse1", generateSalt)
  \/ handleLockExtension
  \/ \E p \in TypedPasswords, c \in Challenges, n \in Nonces : handleLogin(p, FALSE, c, n)
  \/ \E d \in IdleDeltas : Tick(d)
  \/ \E ks \in {{FAILED_ATTEMPTS}, {FAILED_ATTEMPTS, FAILED_ATTEMPTS_BACKUP}} : TamperRemove(ks)

SpecLimiter == Init /\ [][NextLimiter]_vars

\* Setting and changing the password, whole or cut short between two writes,
\* on a store from which the primary integrity copy can be deleted. Nobody logs
\* in and the clock is held still.
NextCommit ==
  \/ loadData
  \/ \E p \in Passwords \cup {""} : handleSetPassword(p, generateSalt)
  \/ \E cur \in TypedPasswords, new \in Passwords :
       handleChangePassword(cur, new, generateSalt)
  \/ \E p \in Passwords, k \in CrashPoints :
       handleSetPasswordInterrupted(p, generateSalt, k)
  \/ \E cur \in TypedPasswords, new \in Passwords, k \in CrashPoints :
       handleChangePasswordInterrupted(cur, new, generateSalt, k)
  \/ TamperRemove({INTEGRITY})

SpecCommit == Init /\ [][NextCommit]_vars

\* One popup and a user who keeps trying: passwords are typed, lockouts are
\* waited out, a day passes in between. Nobody tampers. The popup is opened
\* once.
NextLockouts ==
  \/ isLoading /\ loadData
  \/ handleSetPassword("correcthorse1", generateSalt)
  \/ handleLockExtension
  \/ \E p \in TypedPasswords, c \in Challenges, n \in Nonces : handleLogin(p, FALSE, c, n)
  \/ Tick(expirationTime)
  \/ LockoutElapses

SpecLockouts == Init /\ [][NextLockouts]_vars

\* encryptData and decryptData on their own, on every text and password.
NextCrypto ==
  \/ \E data \in Texts, password \in KeyTexts :
       callEncryptData(data, password, EncryptionSalt, EncryptionIv)
  \/ \E password \in KeyTexts : callDecryptData(password)

SpecCrypto == Init /\ [][NextCrypto]_vars

\* The popup on a store that is at times unavailable when the popup is opened;
\* nobody logs in and the clock is held still.
NextUnavailable ==
  \/ loadData
  \/ loadDataStorageUnavailable
  \/ \E p \in Passwords \cup {""} : handleSetPassword(p, generateSalt)
  \/ \E cur \in TypedPasswords, new \in Passwords :
       handleChangePassword(cur, new, generateSalt)
  \/ \E cur \in TypedPasswords : handleRemovePassword(cur)
  \/ handleLockExtension

SpecUnavailable == Init /\ [][NextUnavailable]_vars

\* Two popups failing to log in at the same time; the clock is held still. The
\* credential is set up before the first attempt.
NextRace ==
  \/ AllIdle /\ failures = 0 /\ loadData
  \/ AllIdle /\ failures = 0 /\ handleSetPassword("correcthorse1", generateSalt)
  \/ AllIdle /\ failures = 0 /\ handleLockExtension
  \/ \E i \in Popups : trackEnhancedFailedLogin_read(i)
  \/ \E i \in Popups : trackEnhancedFailedLogin_writePrimary(i)
  \/ \E i \in Popups : trackEnhancedFailedLogin_writeBackup(i)
  \/ \E i \in Popups : handleLogin_afterTrack(i)

SpecRace == Init /\ [][NextRace]_vars

\* ------------------------------------------------------------------ claims
InCalls(name) == \E i \in DOMAIN calls : calls[i] = name

\* every credential record the inputs can produce
KnownRecords == {NewPasswordInfo(p, s) : p \in Passwords, s \in Salts}

\* the Rate-Limit Record a login attempt starts from
AttemptsBefore == loadAttempts(St)

LockedNow == AttemptsBefore.lockedUntil # 0 /\ now < AttemptsBefore.lockedUntil

\* the copy stored under key is present and carries the hashes recomputed from record
CopyMatches(key, record) ==
  /\ key \in DOMAIN storage
  /\ LET h == createIntegrityHashes(St, record, randomUUID)
     IN /\ storage[key].primaryHash = h.primaryHash
        /\ storage[key].secondaryHash = h.secondaryHash

SomeCopyMatches(record) ==
  CopyMatches(INTEGRITY, record) \/ CopyMatches(INTEGRITY_BACKUP, record)

\* the stored Session Challenge was created under record
ChallengeCreatedUnder(record) ==
  /\ SESSION_CHALLENGE \in DOMAIN storage
  /\ storage[SESSION_CHALLENGE].response =
       challengeResponse(record, hexToBuffer(storage[SESSION_CHALLENGE].challenge),
                         hexToBuffer(storage[SESSION_CHALLENGE].nonce))

CorrectPassword(password) ==
  /\ passwordInfo # Null
  /\ verifyPassword(password, passwordInfo.hash, hexToBuffer(passwordInfo.salt))

\* C1: starting with no Rate-Limit Record, each of the first five consecutive
\* wrong-password login attempts made within 30 minutes reaches the password
\* check and fails it (none is reported as rate-limited); the sixth is rejected
\* as rate-limited with a wait of at most 900 seconds.
C1_FiveAttemptsThenLocked ==
  [][\A p \in TypedPasswords, r \in BOOLEAN, c \in Challenges, n \in Nonces :
       ( /\ handleLogin(p, r, c, n)
         /\ ~CorrectPassword(p)
         /\ \/ AttemptsBefore.count = 0
            \/ now - AttemptsBefore.attemptHistory[1] <= IDLE_RESET_MS )
       => /\ AttemptsBefore.count < MAX_FAILED
               => authError'.msg = "Incorrect password."
          /\ AttemptsBefore.count = MAX_FAILED
               => /\ authError'.msg = "Too many failed attempts."
                  /\ authError'.waitTime \in 1..LOCKOUT_WAIT_S ]_vars

\* C2: once 15 minutes have elapsed since a lockout was set (now >= lockedUntil),
\* the next login attempt is allowed: the password is checked, and a correct
\* password logs the user in.
C2_AllowedAfterLockout ==
  [][\A p \in TypedPasswords, r \in BOOLEAN, c \in Challenges, n \in Nonces :
       ( /\ handleLogin(p, r, c, n)
         /\ AttemptsBefore.lockedUntil # 0
         /\ now >= AttemptsBefore.lockedUntil
         /\ SomeCopyMatches(passwordInfo) )
       => /\ \E i \in DOMAIN calls' : calls'[i] = "verifyPassword"
          /\ CorrectPassword(p) => isAuthenticated' ]_vars

\* C3: while the Rate-Limit Record is locked (now < lockedUntil), a login
\* attempt is answered as rate-limited, verifyPassword is not invoked and the
\* user is not authenticated, whatever password is supplied.
C3_LockedShortCircuits ==
  [][\A p \in TypedPasswords, r \in BOOLEAN, c \in Challenges, n \in Nonces :
       (handleLogin(p, r, c, n) /\ LockedNow)
       => /\ authError'.msg = "Too many failed attempts."
          /\ \A i \in DOMAIN calls' : calls'[i] # "verifyPassword"
          /\ ~isAuthenticated' ]_vars

\* a correct password typed while a lockout set earlier is still running
C3_Witness ==
  /\ op.name = "handleLogin"
  /\ CorrectPassword(op.password)
  /\ authError.msg = "Too many failed attempts."
  /\ authError.waitTime < LOCKOUT_WAIT_S
  /\ ~isAuthenticated

SecurityRecordsUnchanged ==
  /\ getItem(storage', PASSWORD_INFO) = getItem(storage, PASSWORD_INFO)
  /\ getItem(storage', INTEGRITY) = getItem(storage, INTEGRITY)
  /\ getItem(storage', INTEGRITY_BACKUP) = getItem(storage, INTEGRITY_BACKUP)

\* C5: when neither integrity copy matches the current Credential Record, login,
\* changePassword, removePassword and session resume are denied: no access is
\* granted and the Credential Record and both integrity copies stay as they are,
\* whatever password is supplied.
C5_IntegrityFailureDenies ==
  [][ /\ ( /\ passwordInfo # Null
           /\ ~SomeCopyMatches(passwordInfo)
           /\ \/ \E p \in TypedPasswords, r \in BOOLEAN, c \in Challenges, n \in Nonces :
                   handleLogin(p, r, c, n)
              \/ \E cur \in TypedPasswords, new \in Passwords :
                   handleChangePassword(cur, new, generateSalt)
              \/ \E cur \in TypedPasswords : handleRemovePassword(cur) )
         => /\ SecurityRecordsUnchanged
            /\ passwordInfo' = passwordInfo
            /\ isAuthenticated' = isAuthenticated
      /\ ( /\ loadData
           /\ PASSWORD_INFO \in DOMAIN storage
           /\ ~SomeCopyMatches(storage[PASSWORD_INFO]) )
         => /\ SecurityRecordsUnchanged
            /\ ~isAuthenticated' ]_vars

\* the correct password refused because the integrity check failed
C5_Witness ==
  /\ op.name = "handleLogin"
  /\ CorrectPassword(op.password)
  /\ authError.msg = "Security error: Authentication data may have been tampered with."
  /\ ~isAuthenticated
  /\ ~SomeCopyMatches(passwordInfo)

\* the stored Session Challenge is present, not older than 24 h and answers record
ChallengeValid(record) ==
  /\ SESSION_CHALLENGE \in DOMAIN storage
  /\ now - storage[SESSION_CHALLENGE].timestamp <= expirationTime
  /\ ChallengeCreatedUnder(record)

\* C6: at launch with a Credential Record stored, the password prompt is skipped
\* exactly when the session flag is set, the integrity check passes and the
\* Session Challenge verifies.
C6_ResumeNeedsAllThree ==
  [][ (loadData /\ PASSWORD_INFO \in DOMAIN storage)
      => ( isAuthenticated' <=> /\ sessionAuthSet(storage)
                                /\ SomeCopyMatches(storage[PASSWORD_INFO])
                                /\ ChallengeValid(storage[PASSWORD_INFO]) ) ]_vars

\* a launch that skipped the password prompt
C6_Witness ==
  /\ op.name = "loadData"
  /\ passwordInfo # Null
  /\ isAuthenticated
  /\ InCalls("verifyEnhancedAuthChallenge")

\* C7: a Session Challenge created at t0 under the unchanged Credential Record
\* verifies at every time up to t0 + 24 h and is rejected later; the rejection
\* deletes the stored challenge.
C7_ChallengeLifetime ==
  ( /\ PASSWORD_INFO \in DOMAIN storage
    /\ ChallengeCreatedUnder(storage[PASSWORD_INFO]) )
  => LET v == verifyEnhancedAuthChallenge(St, storage[PASSWORD_INFO], now)
         t0 == storage[SESSION_CHALLENGE].timestamp
     IN /\ v.ret <=> now <= t0 + expirationTime
        /\ ~v.ret => SESSION_CHALLENGE \notin DOMAIN v.S.db

\* a session resumed exactly 24 h after its challenge was created
C7_Witness ==
  /\ op.name = "loadData"
  /\ isAuthenticated
  /\ InCalls("verifyEnhancedAuthChallenge")
  /\ SESSION_CHALLENGE \in DOMAIN storage
  /\ now = storage[SESSION_CHALLENGE].timestamp + expirationTime

\* C8: a Session Challenge created under one Credential Record never verifies
\* against a different one (another hash or another salt).
C8_ChallengeBoundToCredential ==
  \A created \in KnownRecords, other \in KnownRecords :
    (ChallengeCreatedUnder(created) /\ other # created)
    => ~verifyEnhancedAuthChallenge(St, other, now).ret

\* an outstanding challenge while the stored credential has been replaced
C8_Witness ==
  /\ PASSWORD_INFO \in DOMAIN storage
  /\ SESSION_CHALLENGE \in DOMAIN storage
  /\ ~ChallengeCreatedUnder(storage[PASSWORD_INFO])
  /\ \E created \in KnownRecords : ChallengeCreatedUnder(created)

ChangeSucceeded ==
  /\ op.name = "handleChangePassword"
  /\ InCalls("storeEnhancedIntegrityData")

\* C9: after a successful changePassword neither the session flag nor a Session
\* Challenge is stored, and a launch from there asks for the password.
C9_ChangeInvalidatesSession ==
  ChangeSucceeded
  => /\ SESSION_AUTH \notin DOMAIN storage
     /\ SESSION_CHALLENGE \notin DOMAIN storage
     /\ ~loadDataResult(St, now, randomUUID).isAuthenticated

\* a password change accepted with the correct current password
C9_Witness ==
  /\ ChangeSucceeded
  /\ authError = NoError
  /\ isAuthenticated
  /\ passwordInfo = getItem(storage, PASSWORD_INFO)

RemoveSucceeded ==
  /\ op.name = "handleRemovePassword"
  /\ authError = NoError

\* C10: after a successful removePassword the Credential Record, both integrity
\* copies, both Rate-Limit Record copies, the session flag and the Session
\* Challenge are absent, and a launch from there grants access without password.
C10_RemoveClearsEverything ==
  RemoveSucceeded
  => /\ {PASSWORD_INFO, INTEGRITY, INTEGRITY_BACKUP, FAILED_ATTEMPTS,
         FAILED_ATTEMPTS_BACKUP, SESSION_AUTH, SESSION_CHALLENGE} \cap DOMAIN storage = {}
     /\ loadDataResult(St, now, randomUUID).isAuthenticated
     /\ loadDataResult(St, now, randomUUID).passwordInfo = Null

\* password protection removed with the correct password
C10_Witness ==
  /\ RemoveSucceeded
  /\ passwordInfo = Null
  /\ isAuthenticated
  /\ op.password \in TypedPasswords

\* the record stored under key is the same before and after the step
Kept(key) ==
  /\ key \in DOMAIN storage' <=> key \in DOMAIN storage
  /\ key \in DOMAIN storage => storage'[key] = storage[key]

\* the copy under key is untouched, or it was missing and is now the other copy
KeptOrRestored(key, other) ==
  \/ Kept(key)
  \/ /\ key \notin DOMAIN storage
     /\ CopyMatches(other, passwordInfo)
     /\ key \in DOMAIN storage'
     /\ storage'[key] = storage[other]

WrongPassword(password) ==
  /\ passwordInfo # Null
  /\ hashPassword(password, hexToBuffer(passwordInfo.salt)) # passwordInfo.hash

\* changePassword or removePassword run with a wrong current password
WrongCurrentPasswordStep ==
  \/ \E cur \in TypedPasswords, new \in Passwords :
       handleChangePassword(cur, new, generateSalt) /\ WrongPassword(cur)
  \/ \E cur \in TypedPasswords :
       handleRemovePassword(cur) /\ WrongPassword(cur)

\* C11 as stated: changePassword or removePassword with a wrong current password
\* fails with an error and leaves the Credential Record, both integrity copies,
\* the session flag and the Session Challenge unchanged.
C11_WrongPasswordChangesNothing ==
  [][WrongCurrentPasswordStep
     => /\ authError'.msg # ""
        /\ Kept(PASSWORD_INFO)
        /\ Kept(INTEGRITY)
        /\ Kept(INTEGRITY_BACKUP)
        /\ Kept(SESSION_AUTH)
        /\ Kept(SESSION_CHALLENGE)]_vars

\* C11 amended: changePassword or removePassword with a wrong current password
\* fails with an error, grants nothing and leaves the Credential Record, the
\* session flag and the Session Challenge unchanged; each integrity copy is
\* unchanged, or was missing and has been restored from the matching other copy.
C11_WrongPasswordKeepsOrRestores ==
  [][WrongCurrentPasswordStep
     => /\ authError'.msg # ""
        /\ passwordInfo' = passwordInfo
        /\ isAuthenticated' = isAuthenticated
        /\ Kept(PASSWORD_INFO)
        /\ KeptOrRestored(INTEGRITY, INTEGRITY_BACKUP)
        /\ KeptOrRestored(INTEGRITY_BACKUP, INTEGRITY)
        /\ Kept(SESSION_AUTH)
        /\ Kept(SESSION_CHALLENGE)]_vars

\* a wrong current password refused, the two integrity copies being identical
\* (one of them was restored from the other)
C11_Witness ==
  /\ op.name \in {"handleChangePassword", "handleRemovePassword"}
  /\ WrongPassword(op.password)
  /\ authError.msg = "Current password is incorrect."
  /\ INTEGRITY \in DOMAIN storage
  /\ INTEGRITY_BACKUP \in DOMAIN storage
  /\ storage[INTEGRITY] = storage[INTEGRITY_BACKUP]

\* the step is refused with a message and writes nothing
RejectedWithoutWrite ==
  /\ authError'.msg # ""
  /\ storage' = storage
  /\ localStorage' = localStorage
  /\ passwordInfo' = passwordInfo
  /\ isAuthenticated' = isAuthenticated

\* C12: setPassword with an empty password or one shorter than 8 characters is
\* rejected and writes nothing (Credential Record, integrity copies and security
\* metadata unchanged); so is changePassword with a new password shorter than 8.
C12_WeakPasswordWritesNothing ==
  [][ /\ \A p \in Passwords \cup {""} :
           (handleSetPassword(p, generateSalt) /\ Len(p) < 8) => RejectedWithoutWrite
      /\ \A cur \in TypedPasswords, new \in Passwords :
           (handleChangePassword(cur, new, generateSalt) /\ Len(new) < 8)
           => RejectedWithoutWrite ]_vars

\* a five-character password refused by setPassword
C12_Witness ==
  /\ op = Op("handleSetPassword", "short")
  /\ authError.msg = "Password must be at least 8 characters long."
  /\ passwordInfo = Null
  /\ PASSWORD_INFO \notin DOMAIN storage

LoginSucceeded ==
  /\ op.name = "handleLogin"
  /\ InCalls("resetEnhancedFailedLoginAttempts")

\* C13: after a successful login the Rate-Limit Record is absent from the primary
\* and the backup location, so the next attempt is counted from a fresh record:
\* it is not locked, its count is 1 and it carries no lockedUntil.
C13_LoginClearsRateLimit ==
  LoginSucceeded
  => /\ FAILED_ATTEMPTS \notin DOMAIN storage
     /\ FAILED_ATTEMPTS_BACKUP \notin DOMAIN storage
     /\ LET next == trackEnhancedFailedLogin(St, now)
        IN /\ ~next.isLocked
           /\ loadAttempts(next.S).count = 1
           /\ loadAttempts(next.S).lockedUntil = 0

\* a login accepted after the clock has moved
C13_Witness ==
  /\ LoginSucceeded
  /\ isAuthenticated
  /\ CorrectPassword(op.password)
  /\ ticks > 0

\* in the stores S, the copy under key is present and carries the hashes of record
CopyMatchesIn(S, key, record) ==
  /\ key \in DOMAIN S.db
  /\ LET h == createIntegrityHashes(S, record, randomUUID)
     IN /\ S.db[key].primaryHash = h.primaryHash
        /\ S.db[key].secondaryHash = h.secondaryHash

\* C14: whenever verifyIntegrity passes while exactly one integrity copy is
\* missing or mismatched, after the call both stored copies match the record.
C14_WeakCopyRepaired ==
  \A record \in KnownRecords :
    LET v == verifyEnhancedIntegrity(St, record, randomUUID)
    IN ( /\ v.ret
         /\ ~(CopyMatches(INTEGRITY, record) /\ CopyMatches(INTEGRITY_BACKUP, record)) )
       => /\ CopyMatchesIn(v.S, INTEGRITY, record)
          /\ CopyMatchesIn(v.S, INTEGRITY_BACKUP, record)

\* what crypto.randomUUID() returns on the call after the next one
nextRandomUUID == <<"uuid", uuidsIssued + 1>>

\* C15: verifyIntegrity called again on the same record, with nothing else
\* writing to storage in between, returns what the first call returned, and the
\* calls after the first leave the stores as the first call left them.
C15_VerifyIdempotent ==
  \A record \in KnownRecords :
    LET first == verifyEnhancedIntegrity(St, record, randomUUID)
        second == verifyEnhancedIntegrity(first.S, record, nextRandomUUID)
        third == verifyEnhancedIntegrity(second.S, record, nextRandomUUID)
    IN /\ second.ret = first.ret
       /\ third.ret = first.ret
       /\ second.S = first.S
       /\ third.S = first.S

\* a state in which the first call passes and restores a missing copy
C15_Witness ==
  /\ passwordInfo # Null
  /\ verifyEnhancedIntegrity(St, passwordInfo, randomUUID).ret
  /\ verifyEnhancedIntegrity(St, passwordInfo, randomUUID).S.db # storage

\* every occurrence of name in seq comes after a verifyEnhancedIntegrity call
IntegrityBefore(name, seq) ==
  \A j \in DOMAIN seq :
    seq[j] = name => \E i \in 1..(j - 1) : seq[i] = "verifyEnhancedIntegrity"

CredentialOperationStep ==
  \/ \E p \in TypedPasswords, r \in BOOLEAN, c \in Challenges, n \in Nonces :
       handleLogin(p, r, c, n)
  \/ \E cur \in TypedPasswords, new \in Passwords :
       handleChangePassword(cur, new, generateSalt)
  \/ \E cur \in TypedPasswords : handleRemovePassword(cur)

\* C16: in login, changePassword and removePassword the password is compared,
\* access granted, the credential replaced or deleted only after verifyIntegrity
\* has run and passed on the Credential Record the operation decides on; a
\* session is resumed at launch, and its challenge examined, only after
\* verifyIntegrity has run and passed on the stored Credential Record.
C16_IntegrityBeforeDecision ==
  [][ /\ CredentialOperationStep
         => /\ IntegrityBefore("verifyPassword", calls')
            /\ ( \/ \E j \in DOMAIN calls' : calls'[j] = "verifyPassword"
                 \/ isAuthenticated' # isAuthenticated
                 \/ passwordInfo' # passwordInfo
                 \/ ~Kept(PASSWORD_INFO) )
               => SomeCopyMatches(passwordInfo)
      /\ (loadData /\ PASSWORD_INFO \in DOMAIN storage)
         => /\ IntegrityBefore("verifyEnhancedAuthChallenge", calls')
            /\ ( \/ \E j \in DOMAIN calls' : calls'[j] = "verifyEnhancedAuthChallenge"
                 \/ isAuthenticated' )
               => SomeCopyMatches(storage[PASSWORD_INFO]) ]_vars

\* the correct current password given to removePassword and not acted upon,
\* the integrity check having failed first
C16_Witness ==
  /\ op.name = "handleRemovePassword"
  /\ CorrectPassword(op.password)
  /\ calls = <<"verifyEnhancedIntegrity">>
  /\ PASSWORD_INFO \in DOMAIN storage

\* C17: every invocation of verifyPassword, in login, changePassword and
\* removePassword, comes after a Login Rate Limiter check made in the same
\* operation (which then reported not locked).
C17_RateLimitBeforeVerify ==
  \A j \in DOMAIN calls :
    calls[j] = "verifyPassword"
    => \E i \in 1..(j - 1) : calls[i] = "trackEnhancedFailedLogin"

\* setPassword, changePassword or an import carrying a credential
CredentialWriteStep ==
  \/ \E p \in Passwords \cup {""} : handleSetPassword(p, generateSalt)
  \/ \E cur \in TypedPasswords, new \in Passwords :
       handleChangePassword(cur, new, generateSalt)
  \/ \E f \in ImportedFolders, pi \in ImportedPasswordInfos :
       handleImportData(f, pi, EncryptionSalt, EncryptionIv)

InterruptedStep ==
  op.name \in {"handleSetPasswordInterrupted", "handleChangePasswordInterrupted"}

\* C19: when handleSetPassword or handleChangePassword is cut short between two
\* of its storage writes, the Credential Record then in storage passes
\* verifyEnhancedIntegrity, having a stored integrity copy that matches it.
C19_InterruptedWriteStaysVerifiable ==
  (InterruptedStep /\ PASSWORD_INFO \in DOMAIN storage)
    => /\ verifyEnhancedIntegrity(St, storage[PASSWORD_INFO], randomUUID).ret
       /\ SomeCopyMatches(storage[PASSWORD_INFO])

\* performSecurityBootCheck on the current stores leaves security metadata of a
\* first boot behind
BootCheckInitialisesMetadata ==
  LET b == performSecurityBootCheck(St, now, randomUUID)
  IN /\ SECURITY_METADATA \in DOMAIN b.S.db
     /\ b.S.db[SECURITY_METADATA].bootCount = 1
     /\ b.S.db[SECURITY_METADATA].lastVerified = now

\* C20 as stated: with no security metadata stored, performSecurityBootCheck
\* initialises the metadata and reports the system intact, whatever other
\* records are stored.
C20_NoMetadataReportsIntact ==
  SECURITY_METADATA \notin DOMAIN storage
    => /\ BootCheckInitialisesMetadata
       /\ performSecurityBootCheck(St, now, randomUUID).ret

\* C20 amended: with no security metadata stored, performSecurityBootCheck
\* initialises the metadata, and it reports the system intact exactly when no
\* Credential Record is stored.
C20_NoMetadataIntactIffNoCredential ==
  SECURITY_METADATA \notin DOMAIN storage
    => /\ BootCheckInitialisesMetadata
       /\ (performSecurityBootCheck(St, now, randomUUID).ret
             <=> PASSWORD_INFO \notin DOMAIN storage)

\* a Credential Record is stored without security metadata, and the boot check
\* initialises the metadata and reports tampering
C20_Witness ==
  /\ SECURITY_METADATA \notin DOMAIN storage
  /\ PASSWORD_INFO \in DOMAIN storage
  /\ BootCheckInitialisesMetadata
  /\ ~performSecurityBootCheck(St, now, randomUUID).ret

\* the step was taken by one of the popup's own operations
PopupOperationStep ==
  op'.name \in {"loadData", "handleLogin", "handleSetPassword", "handleChangePassword",
                "handleRemovePassword", "handleImportData", "handleLockExtension"}

\* C21: no operation of the popup lowers the stored bootCount (0 when no
\* security metadata is stored), and every performSecurityBootCheck, which
\* loadData runs first, raises it by one.
C21_BootCountNeverDecreases ==
  [][PopupOperationStep
       => /\ bootCountOf(storage') >= bootCountOf(storage)
          /\ op'.name = "loadData" => bootCountOf(storage') = bootCountOf(storage) + 1]_vars

\* C22: migrateToEncryptedStorage called while no Credential Record is stored
\* returns false and leaves the stored folders and the encryption flag as they
\* were.
C22_MigrateWithoutCredentialFails ==
  [][ ( /\ migrateToEncrypted(EncryptionSalt, EncryptionIv)
        /\ PASSWORD_INFO \notin DOMAIN storage )
      => /\ op'.ret = FALSE
         /\ Kept(FOLDERS)
         /\ Kept(ENCRYPTION_ENABLED) ]_vars

\* the stored folders are an encrypted blob that the stored credential, if
\* there is one, does not decrypt
Undecryptable ==
  /\ FOLDERS \in DOMAIN storage
  /\ IsString(storage[FOLDERS])
  /\ ~decryptFolders(St, storage[FOLDERS]).ok

\* a migration that cannot convert the stored data: to plain with a blob that
\* cannot be decrypted, or to encrypted with no credential to encrypt with
FailingMigrationStep ==
  \/ migrateToUnencrypted /\ isEncryptionEnabled(St) /\ Undecryptable
  \/ /\ migrateToEncrypted(EncryptionSalt, EncryptionIv)
     /\ ~isEncryptionEnabled(St)
     /\ PASSWORD_INFO \notin DOMAIN storage

\* C23: a migration that cannot convert the stored data returns false and leaves
\* the stored folders and the encryption flag as they were.
C23_FailedMigrationKeepsData ==
  [][ FailingMigrationStep
      => /\ op'.ret = FALSE
         /\ Kept(FOLDERS)
         /\ Kept(ENCRYPTION_ENABLED) ]_vars

\* C24: decryptData on a blob of encryptData returns the encrypted text when it
\* is given the password of the encryption, and throws for any other password.
C24_DecryptInvertsEncrypt ==
  op.name = "decryptData"
    => IF op.key = op.encrypted.key
         THEN op.ret.ok /\ op.ret.value = op.encrypted.data
         ELSE ~op.ret.ok

C26_ReadFailureIsNotNoCredential ==
  [][ (loadDataStorageUnavailable /\ PASSWORD_INFO \in DOMAIN storage)
      => /\ authError' # NoError
         /\ ~Unlocked' ]_vars

C29_CorrectPasswordAccepted ==
  [][ \A p \in TypedPasswords, r \in BOOLEAN, c \in Challenges, n \in Nonces :
        (/\ handleLogin(p, r, c, n)
         /\ verifyPassword(p, passwordInfo.hash, hexToBuffer(passwordInfo.salt))
         /\ ~isLockedAt(loadAttempts(St), now)
         /\ verifyEnhancedIntegrity(St, passwordInfo, randomUUID).ret)
        => isAuthenticated' /\ authError' = NoError ]_vars

\* the step replaced or deleted the stored Credential Record
CredentialReplaced ==
  getItem(storage', PASSWORD_INFO) # getItem(storage, PASSWORD_INFO)

\* C30: with folder encryption enabled, a change or a removal of the password
\* leaves retrieveFoldersSecurely returning the folders it returned before, and
\* an import that carries a credential leaves it returning the imported folders.
C30_FoldersReadableAfterCredentialChange ==
  [][ (isEncryptionEnabled(St) /\ CredentialReplaced)
      => /\ op'.name \in {"handleChangePassword", "handleRemovePassword"}
            => retrieveFoldersSecurely(St') = retrieveFoldersSecurely(St)
         /\ op'.name = "handleImportData"
            => retrieveFoldersSecurely(St') \in ImportedFolders ]_vars

\* encryption is switched on: the Settings switch or the exported migration,
\* run while the flag is off
MigrationToEncryptedStep ==
  /\ ~isEncryptionEnabled(St)
  /\ \/ handleToggleEncryption(EncryptionSalt, EncryptionIv)
     \/ migrateToEncrypted(EncryptionSalt, EncryptionIv)

\* the stored folders are a blob that the stored credential decrypts to an array
StoredEncryptedFolders ==
  /\ FOLDERS \in DOMAIN storage
  /\ IsString(storage[FOLDERS])
  /\ decryptFolders(St, storage[FOLDERS]).ok
  /\ IsArray(decryptFolders(St, storage[FOLDERS]).value)

\* C31: a migration to encrypted that finds the folders already stored as an
\* encrypted string does not encrypt them again, and retrieveFoldersSecurely
\* afterwards returns the folder array that the string held.
C31_NoSecondEncryption ==
  [][ (MigrationToEncryptedStep /\ StoredEncryptedFolders)
      => /\ nesting(storage'[FOLDERS]) = nesting(storage[FOLDERS])
         /\ retrieveFoldersSecurely(St') = decryptFolders(St, storage[FOLDERS]).value ]_vars

\* a login attempt, with any password and either remember-me choice
LoginStep ==
  \E p \in TypedPasswords, r \in BOOLEAN, c \in Challenges, n \in Nonces :
    handleLogin(p, r, c, n)

\* C32: a login attempt made while a lockout is running is answered as locked
\* with the remaining time in seconds, rounded up, and leaves both stored copies
\* of the Rate-Limit Record as they were.
C32_LockedAttemptChangesNothing ==
  [][ (LoginStep /\ isLockedAt(loadAttempts(St), now))
      => /\ authError'.msg = "Too many failed attempts."
         /\ authError'.waitTime * 1000 >= loadAttempts(St).lockedUntil - now
         /\ (authError'.waitTime - 1) * 1000 < loadAttempts(St).lockedUntil - now
         /\ Kept(FAILED_ATTEMPTS)
         /\ Kept(FAILED_ATTEMPTS_BACKUP)
         /\ ~isAuthenticated' ]_vars

\* an attempt was turned away one millisecond before the lockout ran out
C32_Witness ==
  /\ op.name = "handleLogin"
  /\ authError.msg = "Too many failed attempts."
  /\ authError.waitTime = 1
  /\ isLockedAt(loadAttempts(St), now)
  /\ getItem(storage, FAILED_ATTEMPTS) = getItem(storage, FAILED_ATTEMPTS_BACKUP)

\* the two stored copies of the Rate-Limit Record are equal, or both missing
CopiesEqual ==
  getItem(storage, FAILED_ATTEMPTS) = getItem(storage, FAILED_ATTEMPTS_BACKUP)

\* C33 as stated: whenever no trackEnhancedFailedLogin is in progress, the
\* primary and the backup copy of the Rate-Limit Record are equal.
C33_CopiesEqualWhenIdle == AllIdle => CopiesEqual

\* C33, amended: a trackEnhancedFailedLogin that is not turned away as locked
\* writes to the backup location the record it wrote to the primary one, whose
\* count is one more than the count it read (0 after an idle half hour); the two
\* copies are equal whenever none is in progress, unless the calls of two
\* popups have overlapped.
C33_SameRecordToBothCopies ==
  /\ [](AllIdle /\ ~overlapped => CopiesEqual)
  /\ [][ \A i \in Popups :
           trackEnhancedFailedLogin_writeBackup(i)
           => /\ getItem(storage', FAILED_ATTEMPTS_BACKUP) = popups[i].attempts
              /\ popups[i].attempts.count
                   = (IF now - popups[i].read.lastAttempt > IDLE_RESET_MS
                        THEN 0 ELSE popups[i].read.count) + 1
              /\ ~overlapped'
                   => getItem(storage', FAILED_ATTEMPTS) = getItem(storage', FAILED_ATTEMPTS_BACKUP)
      ]_vars

\* two attempts, one after the other, have been counted in both copies
C33_Witness ==
  /\ AllIdle
  /\ ~overlapped
  /\ failures = 2
  /\ getItem(storage, FAILED_ATTEMPTS) # Null
  /\ getItem(storage, FAILED_ATTEMPTS).count = 2
  /\ CopiesEqual

\* a login attempt that trackEnhancedFailedLogin did not turn away at once and
\* that did not end in a login
CountedFailureStep ==
  /\ LoginStep
  /\ ~isLockedAt(loadAttempts(St), now)
  /\ ~isAuthenticated'

\* C34: a failure recorded more than 30 minutes after lastAttempt is stored with
\* count 1 and a history of the new timestamp alone; one recorded 30 minutes or
\* less after lastAttempt is stored with the old count plus one and the new
\* timestamp added to the old history.
C34_IdleRestartsCount ==
  [][ CountedFailureStep
      => IF now - loadAttempts(St).lastAttempt > 1800000
           THEN /\ getItem(storage', FAILED_ATTEMPTS).count = 1
                /\ getItem(storage', FAILED_ATTEMPTS).attemptHistory = <<now>>
           ELSE /\ getItem(storage', FAILED_ATTEMPTS).count = loadAttempts(St).count + 1
                /\ getItem(storage', FAILED_ATTEMPTS).attemptHistory
                     = Append(loadAttempts(St).attemptHistory, now) ]_vars

\* a second failure exactly 30 minutes after the first was added to it
C34_Witness ==
  /\ op.name = "handleLogin"
  /\ getItem(storage, FAILED_ATTEMPTS) # Null
  /\ getItem(storage, FAILED_ATTEMPTS).count = 2
  /\ Len(getItem(storage, FAILED_ATTEMPTS).attemptHistory) = 2
  /\ getItem(storage, FAILED_ATTEMPTS).attemptHistory[2]
       - getItem(storage, FAILED_ATTEMPTS).attemptHistory[1] = 1800000

\* only the backup copy of the Rate-Limit Record is stored
OnlyBackupStored ==
  /\ FAILED_ATTEMPTS \notin DOMAIN storage
  /\ FAILED_ATTEMPTS_BACKUP \in DOMAIN storage

\* C35: with the primary copy missing, a login attempt is judged by the backup
\* copy: its running lockout turns the attempt away, its count is the one
\* counted on; with both copies missing a failed attempt is stored as the first.
C35_BackupCopyEnforced ==
  [][ LoginStep
      => /\ (OnlyBackupStored
             /\ storage[FAILED_ATTEMPTS_BACKUP].lockedUntil # 0
             /\ now < storage[FAILED_ATTEMPTS_BACKUP].lockedUntil)
            => /\ authError'.msg = "Too many failed attempts."
               /\ ~isAuthenticated'
               /\ Kept(FAILED_ATTEMPTS_BACKUP)
         /\ (OnlyBackupStored
             /\ ~(storage[FAILED_ATTEMPTS_BACKUP].lockedUntil # 0
                  /\ now < storage[FAILED_ATTEMPTS_BACKUP].lockedUntil)
             /\ now - storage[FAILED_ATTEMPTS_BACKUP].lastAttempt <= 1800000
             /\ ~isAuthenticated')
            => /\ getItem(storage', FAILED_ATTEMPTS).count
                    = storage[FAILED_ATTEMPTS_BACKUP].count + 1
               /\ getItem(storage', FAILED_ATTEMPTS_BACKUP) = getItem(storage', FAILED_ATTEMPTS)
         /\ (/\ FAILED_ATTEMPTS \notin DOMAIN storage
             /\ FAILED_ATTEMPTS_BACKUP \notin DOMAIN storage
             /\ ~isAuthenticated')
            => /\ getItem(storage', FAILED_ATTEMPTS).count = 1
               /\ getItem(storage', FAILED_ATTEMPTS).attemptHistory = <<now>> ]_vars

\* the primary copy was deleted during a lockout and the attempt was turned away
C35_Witness ==
  /\ op.name = "handleLogin"
  /\ authError.msg = "Too many failed attempts."
  /\ OnlyBackupStored
  /\ now < storage[FAILED_ATTEMPTS_BACKUP].lockedUntil
  /\ tampers > 0

\* setPassword or changePassword refused its input: an empty or short new
\* password, a failed integrity check, a wrong current password
RefusedCredentialStep ==
  /\ \/ \E p \in Passwords \cup {""} : handleSetPassword(p, generateSalt)
     \/ \E cur \in TypedPasswords, new \in Passwords :
          handleChangePassword(cur, new, generateSalt)
  /\ authError'.msg # ""

\* setPassword or changePassword stopped between two of its writes, the
\* Credential Record it was storing being new
CommitCutShort(new) ==
  \/ \E p \in Passwords, k \in CrashPoints :
       /\ handleSetPasswordInterrupted(p, generateSalt, k)
       /\ new = NewPasswordInfo(p, generateSalt)
  \/ \E cur \in TypedPasswords, p \in Passwords, k \in CrashPoints :
       /\ handleChangePasswordInterrupted(cur, p, generateSalt, k)
       /\ new = NewPasswordInfo(p, generateSalt)

\* what is stored after the step was written in the order Credential Record,
\* primary integrity copy, backup integrity copy, security metadata
WrittenInOrder(new) ==
  LET after == [db |-> storage', ls |-> localStorage']
  IN /\ CopyMatchesIn(after, INTEGRITY, new) => getItem(storage', PASSWORD_INFO) = new
     /\ CopyMatchesIn(after, INTEGRITY_BACKUP, new) => CopyMatchesIn(after, INTEGRITY, new)
     /\ ~Kept(SECURITY_METADATA) => CopyMatchesIn(after, INTEGRITY_BACKUP, new)

\* C36 as stated: a setPassword or changePassword that refuses its input has
\* written nothing, and one that is cut short has written in the order
\* Credential Record, integrity primary, integrity backup, security checksum.
C36_VerifyThenWriteInOrder ==
  [][ /\ RefusedCredentialStep
         => storage' = storage /\ localStorage' = localStorage
      /\ \A new \in KnownRecords : CommitCutShort(new) => WrittenInOrder(new) ]_vars

\* C36, amended: a setPassword or changePassword that refuses its input has
\* written nothing, except that the integrity check of changePassword may have
\* restored a missing integrity copy from the other one; one that is cut short
\* has written in the order Credential Record, integrity primary, integrity
\* backup, security checksum.
C36_VerifyThenCommitInOrder ==
  [][ /\ RefusedCredentialStep
         => /\ localStorage' = localStorage
            /\ \A key \in (DOMAIN storage \cup DOMAIN storage') \ {INTEGRITY, INTEGRITY_BACKUP} :
                 Kept(key)
            /\ KeptOrRestored(INTEGRITY, INTEGRITY_BACKUP)
            /\ KeptOrRestored(INTEGRITY_BACKUP, INTEGRITY)
      /\ \A new \in KnownRecords : CommitCutShort(new) => WrittenInOrder(new) ]_vars

\* changePassword was cut short after the new primary integrity copy and before
\* the backup copy
C36_Witness ==
  /\ op.name = "handleChangePasswordInterrupted"
  /\ PASSWORD_INFO \in DOMAIN storage
  /\ storage[PASSWORD_INFO] = NewPasswordInfo("hunter2hunter2", generateSalt)
  /\ CopyMatches(INTEGRITY, storage[PASSWORD_INFO])
  /\ ~CopyMatches(INTEGRITY_BACKUP, storage[PASSWORD_INFO])

\* storeFoldersSecurelyOutcome agrees with storeFoldersSecurely when the
\* encryption succeeds
OutcomeAgreesWithStore ==
  \A F \in FolderArrays :
    storeFoldersSecurelyOutcome(St, F, encryptFolders(St, F, EncryptionSalt, EncryptionIv)).S
      = storeFoldersSecurely(St, F, EncryptionSalt, EncryptionIv)

\* C37: with folder encryption enabled, a save whose encryption fails stores
\* the folders in plaintext and returns to the caller without an error.
C37_EncryptionFailureStoresPlaintext ==
  [][ \A F \in FolderArrays :
        saveFoldersEncryptionFails(F)
        => /\ getItem(storage', FOLDERS) = F
           /\ IsArray(getItem(storage', FOLDERS))
           /\ ~op'.threw
           /\ authError' = authError
           /\ isEncryptionEnabled([db |-> storage', ls |-> localStorage']) ]_vars

\* folders lie in plaintext in the store while encryption is enabled and a
\* credential is set
C37_Witness ==
  /\ op.name = "saveFoldersEncryptionFails"
  /\ ~op.threw
  /\ isEncryptionEnabled(St)
  /\ PASSWORD_INFO \in DOMAIN storage
  /\ storage[FOLDERS] = Folders(<<"note-a", "note-b">>)

C39_DeletedCredentialDoesNotOpen ==
  [][ (/\ loadData
       /\ PASSWORD_INFO \notin DOMAIN storage
       /\ (INTEGRITY \in DOMAIN storage \/ INTEGRITY_BACKUP \in DOMAIN storage))
      => ~Unlocked' ]_vars

\* the invariant of one stored copy of the Rate-Limit Record
LockoutWellFormed(key) ==
  key \in DOMAIN storage
    => /\ (storage[key].lockedUntil # 0 /\ now < storage[key].lockedUntil)
          => /\ storage[key].count >= 5
             /\ storage[key].lockedUntil = storage[key].lastAttempt + 900000
       /\ Len(storage[key].attemptHistory) <= 10

====
